---- MODULE Spec2Model ----
(***************************************************************************)
(* Model of the PDF text-extraction pipeline of the reader:               *)
(*   normalizeText, chunkPageText, processOutline, parsePdf               *)
(*   (services/pdfService) and the sidebar's page-to-chunk locator        *)
(*   (components/Sidebar.tsx, handleChapterClick).                        *)
(*                                                                         *)
(* A JavaScript string is modelled run-length encoded: a text is a         *)
(* sequence of runs [ch |-> c, n |-> k], k copies of the character c.      *)
(* Every regular expression of the code looks only at the class of a       *)
(* character (whitespace, newline, sentence punctuation, other), so a run  *)
(* of k letters behaves exactly as the k letters do, and lengths up to     *)
(* MAX_CHUNK_LENGTH = 1000 stay within reach of the model checker.         *)
(***************************************************************************)
EXTENDS Integers, Sequences, FiniteSets, TLC

VARIABLES
    chunkCall,      \* one call of chunkPageText: its arguments and its result
    normCall,       \* successive calls of normalizeText, each on the result before
    rev,            \* which revision of parsePdf runs: "basic" | "enhanced"
    file,           \* parsePdf: the File argument
    pc,             \* position of the parsePdf call
    numPages,       \* pdf.numPages
    i,              \* loop variable of the page loop
    pageTexts,      \* history: pageTextRaw of every page extracted so far
    allChunks,      \* parsePdf: allChunks
    chunkIdCounter, \* parsePdf: chunkIdCounter
    firstPagesText, \* parsePdf: firstPagesText
    outline,        \* parsePdf: outline
    stack,          \* processOutline: the activation frames, innermost last
    metadata,       \* parsePdf: metadata
    result,         \* how the promise returned by parsePdf settled
    hist,           \* history: what the collaborators did during this call
    sidebar,        \* Sidebar props and the effect of handleChapterClick
    app             \* App: the state of the reader, the audio cache, the stored books

vars == <<chunkCall, normCall, rev, file, pc, numPages, i, pageTexts, allChunks, chunkIdCounter,
          firstPagesText, outline, stack, metadata, result, hist, sidebar, app>>

parseVars == <<rev, file, pc, numPages, i, pageTexts, allChunks, chunkIdCounter,
               firstPagesText, outline, stack, metadata, result, hist>>

-----------------------------------------------------------------------------
(* Bounds of the model.                                                    *)

MaxFragments == 4       \* a chunker input is built from at most this many fragments
MaxPages == 2           \* pdf.numPages is at most this
MaxOutlineNodes == 3    \* nodes of a raw outline handed to processOutline
MaxParseOutlineNodes == 1 \* nodes of the raw outline within a whole parsePdf run
MaxSidebarChunks == 4   \* chunks of the book shown in the sidebar
MaxSidebarPage == 3     \* highest page number in the sidebar's book
MaxHangOutlineNodes == 2 \* nodes of a raw outline when a lookup may never complete
MaxNormLen == 3         \* characters of a text handed to normalizeText
MaxNormalizeCalls == 2  \* times normalizeText is applied in a row
MaxChapterNodes == 3    \* nodes of the outline the sidebar shows
MaxBooks == 2           \* books uploaded to the library
MaxBookChunks == 2      \* chunks of an uploaded book

-----------------------------------------------------------------------------
(* Texts.                                                                  *)

MAX_CHUNK_LENGTH == 1000

Run(c, k) == [ch |-> c, n |-> k]

\* Characters are named by themselves when printable ASCII and otherwise by
\* a name: "LF" U+000A, "TAB" U+0009, "CR" U+000D, "NUL" U+0000, "U+xxxx".
\* The characters JavaScript's \s and String.prototype.trim treat as
\* whitespace, among those the model uses.
JsWhitespace ==
    {" ", "LF", "TAB", "CR", "U+00A0", "U+1680", "U+2000", "U+2003", "U+200A",
     "U+2028", "U+202F", "U+205F", "U+3000", "U+FEFF"}

IsSpace(c) == c \in JsWhitespace

\* [.!?]
IsPunct(c) == c \in {".", "!", "?"}

RECURSIVE TextLen(_)
\* String.prototype.length
TextLen(t) == IF t = <<>> THEN 0 ELSE Head(t).n + TextLen(Tail(t))

-----------------------------------------------------------------------------
(* normalizeText.                                                          *)

RECURSIVE Canon(_)
\* The same string with adjacent runs of one character merged.
Canon(t) ==
    IF Len(t) <= 1 THEN t
    ELSE IF t[1].ch = t[2].ch
         THEN Canon(<<Run(t[1].ch, t[1].n + t[2].n)>> \o SubSeq(t, 3, Len(t)))
         ELSE <<t[1]>> \o Canon(Tail(t))

RECURSIVE Repeat(_, _)
Repeat(t, k) == IF k = 0 THEN <<>> ELSE t \o Repeat(t, k - 1)

\* The characters cs as a text
Str(cs) == [j \in 1..Len(cs) |-> Run(cs[j], 1)]

RECURSIVE ReplaceRuns(_, _)
ReplaceRuns(t, table) ==
    IF t = <<>> THEN <<>>
    ELSE (IF t[1].ch \in DOMAIN table
          THEN Repeat(Str(table[t[1].ch]), t[1].n)
          ELSE <<t[1]>>) \o ReplaceRuns(Tail(t), table)

\* text.replace(/[...]/g, replacement) for a character class: table gives,
\* for each character of the class, the characters that replace it.
Replace(t, table) == Canon(ReplaceRuns(t, table))

Ligatures ==
    ("U+FB00" :> <<"f", "f">>) @@ ("U+FB01" :> <<"f", "i">>) @@
    ("U+FB02" :> <<"f", "l">>) @@ ("U+FB03" :> <<"f", "f", "i">>) @@
    ("U+FB04" :> <<"f", "f", "l">>) @@ ("U+FB05" :> <<"f", "t">>) @@
    ("U+FB06" :> <<"s", "t">>)

SmartQuotes ==
    [c \in {"U+2018", "U+2019", "U+201B"} |-> <<"'">>] @@
    [c \in {"U+201C", "U+201D", "U+201F"} |-> <<"U+0022">>]

Dashes == [c \in {"U+2013", "U+2014"} |-> <<"-">>]

Ellipsis == [c \in {"U+2026"} |-> <<".", ".", ".">>]

\* [\u00A0\u1680\u180E\u2000-\u200B\u202F\u205F\u3000\uFEFF]
UnicodeSpaces ==
    [c \in {"U+00A0", "U+1680", "U+180E", "U+2000", "U+2003", "U+200A", "U+200B",
            "U+202F", "U+205F", "U+3000", "U+FEFF"} |-> <<" ">>]

SoftHyphens == [c \in {"U+00AD"} |-> <<>>]

\* String.prototype.normalize('NFKC') on the characters the model uses that
\* have a compatibility decomposition (none of them combines with a
\* neighbour): the ligatures, the compatibility spaces, dot leaders and
\* ellipses, the small and vertical dash forms, the non-breaking hyphen, the
\* double prime, and fullwidth punctuation.
NFKC ==
    ("U+FB00" :> <<"f", "f">>) @@ ("U+FB01" :> <<"f", "i">>) @@
    ("U+FB02" :> <<"f", "l">>) @@ ("U+FB03" :> <<"f", "f", "i">>) @@
    ("U+FB04" :> <<"f", "f", "l">>) @@ ("U+FB05" :> <<"s", "t">>) @@
    ("U+FB06" :> <<"s", "t">>) @@
    [c \in {"U+00A0", "U+2000", "U+2003", "U+200A", "U+202F", "U+205F", "U+3000"}
        |-> <<" ">>] @@
    ("U+2024" :> <<".">>) @@ ("U+2025" :> <<".", ".">>) @@
    ("U+2026" :> <<".", ".", ".">>) @@ ("U+FE19" :> <<".", ".", ".">>) @@
    ("U+FE58" :> <<"U+2014">>) @@ ("U+FE31" :> <<"U+2014">>) @@
    ("U+FE32" :> <<"U+2013">>) @@ ("U+2011" :> <<"U+2010">>) @@
    ("U+2033" :> <<"U+2032", "U+2032">>) @@
    ("U+FF0E" :> <<".">>) @@ ("U+FF01" :> <<"!">>) @@ ("U+FF1F" :> <<"?">>) @@
    ("U+FF02" :> <<"U+0022">>)

ControlCharsWithNewline ==
    [c \in {"NUL", "TAB", "LF", "U+000B", "U+000C", "CR", "U+001F", "U+007F"} |-> <<>>]

\* [\x00-\x09\x0B-\x1F\x7F], among the characters the model uses
ControlChars == [c \in {"NUL", "TAB", "U+000B", "U+000C", "CR", "U+001F", "U+007F"} |-> <<>>]

\* normalizeText of the revision with the scanned-document check
normalizeText(text) ==
    Replace(Replace(Replace(Replace(Replace(Replace(Replace(Replace(text,
        Ligatures), SmartQuotes), Dashes), Ellipsis), UnicodeSpaces),
        SoftHyphens), NFKC), ControlChars)

\* normalizeText of services/pdfService.ts: ligatures, NFKC, control characters
normalizeTextBasic(text) ==
    Replace(Replace(Replace(text, Ligatures), NFKC), ControlChars)

-----------------------------------------------------------------------------
(* chunkPageText.                                                          *)

RECURSIVE WsRunEnd(_, _)
\* Last index of the maximal run of whitespace runs of t that starts at p
\* (p - 1 when t[p] is no whitespace).
WsRunEnd(t, p) ==
    IF p <= Len(t) /\ IsSpace(t[p].ch) THEN WsRunEnd(t, p + 1) ELSE p - 1

RECURSIVE LastLF(_, _, _)
\* Greatest index in p..q holding newlines, 0 when there is none.
LastLF(t, p, q) ==
    IF q < p THEN 0
    ELSE IF t[q].ch = "LF" THEN q
    ELSE LastLF(t, p, q - 1)

RECURSIVE FirstSeparator(_, _)
\* Leftmost match of /\n\s*\n/ in t at or after p, as <<first, last>> indices
\* of the runs it covers; <<0, 0>> when there is no match.  The greedy \s*
\* runs to the end of the whitespace and backtracks to its last newline.
FirstSeparator(t, p) ==
    IF p > Len(t) THEN <<0, 0>>
    ELSE IF t[p].ch = "LF"
         THEN LET q == LastLF(t, p + 1, WsRunEnd(t, p))
              IN  IF q # 0 THEN <<p, q>>
                  ELSE IF t[p].n >= 2 THEN <<p, p>>
                  ELSE FirstSeparator(t, p + 1)
         ELSE FirstSeparator(t, p + 1)

RECURSIVE SplitParagraphsAtNewline(_)
SplitParagraphsAtNewline(t) ==
    LET p == LastLF(t, 1, Len(t))
    IN  IF p = 0 THEN <<t>>
        ELSE SplitParagraphsAtNewline(SubSeq(t, 1, p - 1)) \o <<SubSeq(t, p + 1, Len(t))>>

RECURSIVE SplitParagraphs(_)
\* text.split(/\n\s*\n/)
SplitParagraphs(t) ==
    LET m == FirstSeparator(t, 1)
    IN  IF m[1] = 0 THEN <<t>>
        ELSE <<SubSeq(t, 1, m[1] - 1)>> \o SplitParagraphs(SubSeq(t, m[2] + 1, Len(t)))

RECURSIVE CollapseWhitespace(_)
\* para.replace(/\s+/g, ' ')
CollapseWhitespace(t) ==
    IF t = <<>> THEN <<>>
    ELSE IF IsSpace(t[1].ch)
         THEN <<Run(" ", 1)>> \o CollapseWhitespace(SubSeq(t, WsRunEnd(t, 1) + 1, Len(t)))
         ELSE <<t[1]>> \o CollapseWhitespace(Tail(t))

RECURSIVE TrimStart(_)
TrimStart(t) ==
    IF t # <<>> /\ IsSpace(t[1].ch) THEN TrimStart(Tail(t)) ELSE t

RECURSIVE TrimEnd(_)
TrimEnd(t) ==
    IF t # <<>> /\ IsSpace(t[Len(t)].ch) THEN TrimEnd(SubSeq(t, 1, Len(t) - 1)) ELSE t

\* String.prototype.trim
Trim(t) == TrimEnd(TrimStart(t))

CleanParagraphUntrimmed(para) == CollapseWhitespace(para)

\* const cleanedPara = para.replace(/\s+/g, ' ').trim()
CleanParagraph(para) == Trim(CollapseWhitespace(para))

RECURSIVE PunctStart(_, _)
\* First index >= p of t holding sentence punctuation, Len(t) + 1 if none.
PunctStart(t, p) ==
    IF p > Len(t) \/ IsPunct(t[p].ch) THEN p ELSE PunctStart(t, p + 1)

RECURSIVE PunctEnd(_, _)
\* First index >= p of t holding no sentence punctuation, Len(t) + 1 if none.
PunctEnd(t, p) ==
    IF p > Len(t) \/ ~IsPunct(t[p].ch) THEN p ELSE PunctEnd(t, p + 1)

RECURSIVE MatchSentences(_, _)
\* The successive matches of /[^.!?]+[.!?]+(?=\s|$)/g in t from index s on.
\* A match starts on a character other than . ! ?, takes all of them up to
\* the next punctuation, then all the punctuation, and stands only if
\* whitespace or the end of the string follows; otherwise the scan resumes
\* after that punctuation, and what it passed over is in no match.
MatchSentences(t, s) ==
    IF s > Len(t) THEN <<>>
    ELSE IF IsPunct(t[s].ch) THEN MatchSentences(t, s + 1)
    ELSE LET a == PunctStart(t, s)
             b == PunctEnd(t, a)
         IN  IF a > Len(t) THEN <<>>
             ELSE IF b > Len(t) \/ IsSpace(t[b].ch)
                  THEN <<SubSeq(t, s, b - 1)>> \o MatchSentences(t, b)
                  ELSE MatchSentences(t, b)

SentencesNoFallback(cleanedPara) == MatchSentences(cleanedPara, 1)

\* cleanedPara.match(/[^.!?]+[.!?]+(?=\s|$)/g) || [cleanedPara]
Sentences(cleanedPara) ==
    LET m == MatchSentences(cleanedPara, 1)
    IN  IF m = <<>> THEN <<cleanedPara>> ELSE m

ExceedsLimitSentenceOnly(currentSubChunk, sentence) ==
    TextLen(sentence) > MAX_CHUNK_LENGTH

ExceedsLimitAtHalf(currentSubChunk, sentence) ==
    TextLen(currentSubChunk \o sentence) > MAX_CHUNK_LENGTH \div 2

\* (currentSubChunk + sentence).length > MAX_CHUNK_LENGTH
ExceedsLimit(currentSubChunk, sentence) ==
    TextLen(currentSubChunk \o sentence) > MAX_CHUNK_LENGTH

\* chunks.push({ id: idCounter++, text, pageNumber }).  st is the state of
\* one chunkPageText call: chunks, idCounter, currentSubChunk, and as
\* history, per chunk, how many sentences it was put together from (0 for a
\* paragraph emitted whole).
PushChunk(st, text, pageNumber, held) ==
    [st EXCEPT !.chunks = Append(@, [id |-> st.idCounter, text |-> text,
                                      pageNumber |-> pageNumber]),
               !.idCounter = @ + 1,
               !.trace = Append(@, held)]

RECURSIVE ForEachSentence(_, _, _, _)
\* sentences.forEach((sentence) => { ... }), from the k-th sentence on
ForEachSentence(st, sentences, k, pageNumber) ==
    IF k > Len(sentences) THEN st
    ELSE LET sentence == sentences[k]
             next ==
                 IF ExceedsLimit(st.currentSubChunk, sentence)
                 THEN LET flushed ==
                              IF st.currentSubChunk # <<>>
                              THEN PushChunk(st, Trim(st.currentSubChunk), pageNumber, st.held)
                              ELSE st
                      IN  [flushed EXCEPT !.currentSubChunk = sentence, !.held = 1]
                 ELSE [st EXCEPT !.currentSubChunk = @ \o sentence, !.held = @ + 1]
         IN  ForEachSentence(next, sentences, k + 1, pageNumber)

\* The else branch: a paragraph longer than MAX_CHUNK_LENGTH
SplitLongParagraph(st, cleanedPara, pageNumber) ==
    LET after == ForEachSentence([st EXCEPT !.currentSubChunk = <<>>, !.held = 0],
                                 Sentences(cleanedPara), 1, pageNumber)
    IN  IF after.currentSubChunk # <<>>
        THEN PushChunk(after, Trim(after.currentSubChunk), pageNumber, after.held)
        ELSE after

ChunkParagraphAlwaysSplit(st, para, pageNumber) ==
    LET cleanedPara == CleanParagraph(para)
    IN  IF TextLen(cleanedPara) = 0 THEN st
        ELSE SplitLongParagraph(st, cleanedPara, pageNumber)

\* The body of rawParagraphs.forEach((para) => { ... })
ChunkParagraph(st, para, pageNumber) ==
    LET cleanedPara == CleanParagraph(para)
    IN  IF TextLen(cleanedPara) = 0 THEN st
        ELSE IF TextLen(cleanedPara) <= MAX_CHUNK_LENGTH
             THEN PushChunk(st, cleanedPara, pageNumber, 0)
             ELSE SplitLongParagraph(st, cleanedPara, pageNumber)

RECURSIVE ForEachParagraph(_, _, _, _)
ForEachParagraph(st, rawParagraphs, k, pageNumber) ==
    IF k > Len(rawParagraphs) THEN st
    ELSE ForEachParagraph(ChunkParagraph(st, rawParagraphs[k], pageNumber),
                          rawParagraphs, k + 1, pageNumber)

\* The state of a chunkPageText call when it returns
ChunkerRun(text, pageNumber, startId) ==
    ForEachParagraph([chunks |-> <<>>, idCounter |-> startId,
                      currentSubChunk |-> <<>>, held |-> 0, trace |-> <<>>],
                     SplitParagraphs(text), 1, pageNumber)

chunkPageText(text, pageNumber, startId) == ChunkerRun(text, pageNumber, startId).chunks

-----------------------------------------------------------------------------
(* One call of chunkPageText on a text drawn from a bounded set.           *)

HalfRun == MAX_CHUNK_LENGTH \div 2 - 2
OverRun == MAX_CHUNK_LENGTH + 1

\* The pieces the chunker's inputs are built from: a letter, a word of just
\* under half the limit, a word longer than the limit, the separators, a
\* blank line, a word with the blank line that ends its paragraph, and a
\* sentence of about half the limit with its following space.
Fragments ==
    { <<Run("a", 1)>>, <<Run("a", HalfRun)>>, <<Run("a", OverRun)>>,
      <<Run(" ", 1)>>, <<Run("LF", 1)>>, <<Run(".", 1)>>,
      <<Run("LF", 1), Run("LF", 1)>>,
      <<Run("b", 1), Run("LF", 1), Run("LF", 1)>>,
      <<Run("a", HalfRun), Run(".", 1), Run(" ", 1)>> }

RECURSIVE Flatten(_)
Flatten(ss) == IF ss = <<>> THEN <<>> ELSE Head(ss) \o Flatten(Tail(ss))

ChunkerInputs ==
    { Flatten(fs) : fs \in UNION { [1..k -> Fragments] : k \in 0..MaxFragments } }

ChunkIdle == [state |-> "idle"]

NormIdle == [state |-> "idle"]

SidebarIdle == [state |-> "idle"]

AppIdle == [currentView |-> "idle"]

NoMetadata == [title |-> "", coverUrl |-> "", author |-> "", publisher |-> "", edition |-> ""]

\* What the collaborators did so far: the calls awaited, the raw outline
\* getOutline gave and how it ended, the outline nodes (by position) a lookup
\* of which threw, what the lookups that returned gave, the node (by
\* position) a lookup of which never completes, and how getMetadata ended
NoHistory ==
    [calls |-> <<>>, rawOutline |-> <<>>, outlineResult |-> "none", failed |-> {},
     returned |-> {}, hung |-> <<>>, meta |-> [status |-> "none"]]

\* No parsePdf call is under way
ParseIdle ==
    /\ rev = "enhanced" /\ file = [name |-> "book.pdf"] /\ pc = "idle"
    /\ numPages = 0 /\ i = 0
    /\ pageTexts = <<>> /\ allChunks = <<>> /\ chunkIdCounter = 0
    /\ firstPagesText = <<>> /\ outline = <<>> /\ stack = <<>>
    /\ metadata = NoMetadata
    /\ result = [status |-> "pending"]
    /\ hist = NoHistory

InitChunk ==
    /\ \E text \in ChunkerInputs, pageNumber \in 1..2, startId \in {0, 7} :
          chunkCall = [state |-> "called", text |-> text,
                       pageNumber |-> pageNumber, startId |-> startId]
    /\ ParseIdle
    /\ sidebar = SidebarIdle
    /\ normCall = NormIdle
    /\ app = AppIdle

\* chunkPageText(text, pageNumber, startId) returns
ChunkPageText ==
    /\ chunkCall.state = "called"
    /\ LET run == ChunkerRun(chunkCall.text, chunkCall.pageNumber, chunkCall.startId)
       IN  chunkCall' = [state |-> "returned", text |-> chunkCall.text,
                         pageNumber |-> chunkCall.pageNumber,
                         startId |-> chunkCall.startId,
                         chunks |-> run.chunks, trace |-> run.trace]
    /\ UNCHANGED <<parseVars, normCall, sidebar, app>>

NextChunk == ChunkPageText

SpecChunk == InitChunk /\ [][NextChunk]_vars

-----------------------------------------------------------------------------
(* parsePdf: loading the document and the page loop.                       *)

Rejected(e) == [status |-> "rejected", error |-> e]

Resolved(v) == [status |-> "resolved", value |-> v]

Called(call) == hist' = [hist EXCEPT !.calls = Append(@, call)]

RECURSIVE Join(_, _)
\* Array.prototype.join
Join(strs, sep) ==
    IF strs = <<>> THEN <<>>
    ELSE IF Len(strs) = 1 THEN strs[1]
    ELSE strs[1] \o sep \o Join(Tail(strs), sep)

\* textContent.items.map((item: any) => item.str).join(' ')
PageTextRaw(items) == Join(items, <<Run(" ", 1)>>)

\* What page.getTextContent() may give, as the str of each item: no item (a
\* page of images), items that normalise to whitespace, a line with a
\* ligature, two paragraphs, and a paragraph of three sentences that is
\* longer than MAX_CHUNK_LENGTH.
PageItemSamples ==
    { <<>>,
      << <<Run("U+00A0", 1)>>, <<Run("TAB", 1)>> >>,
      << <<Run("U+FB01", 1), Run("n", 1), Run("e", 1)>>, <<Run("a", 3), Run(".", 1)>> >>,
      << <<Run("a", 1), Run("LF", 1)>>, <<Run("LF", 1), Run("b", 1), Run(".", 1)>> >>,
      << <<Run("a", HalfRun), Run(".", 1)>>, <<Run("a", HalfRun), Run(".", 1)>>,
         <<Run("a", HalfRun), Run(".", 1)>> >> }

FileSamples == { [name |-> "book.pdf"], [name |-> "a.pdf"] }

\* normalizeText as the revision under way defines it
Normalized(revision, pageTextRaw) ==
    IF revision = "basic" THEN normalizeTextBasic(pageTextRaw) ELSE normalizeText(pageTextRaw)

PageChunksZeroBased(revision, pageTextRaw, pageNo, counter) ==
    chunkPageText(Normalized(revision, pageTextRaw), pageNo - 1, counter)

\* const pageChunks = chunkPageText(normalized, i, chunkIdCounter)
PageChunks(revision, pageTextRaw, pageNo, counter) ==
    chunkPageText(Normalized(revision, pageTextRaw), pageNo, counter)

NextChunkIdCounterPlusOne(counter, pageChunks) == counter + 1

\* if (pageChunks.length > 0) chunkIdCounter = pageChunks[pageChunks.length - 1].id + 1
NextChunkIdCounter(counter, pageChunks) ==
    IF Len(pageChunks) > 0 THEN pageChunks[Len(pageChunks)].id + 1 ELSE counter

\* if (pageChunks.length > 0) allChunks = [...allChunks, ...pageChunks]
NextAllChunks(chunks, pageChunks) ==
    IF Len(pageChunks) > 0 THEN chunks \o pageChunks ELSE chunks

\* if (i <= 3) firstPagesText += pageTextRaw + '\n'   (not in services/pdfService.ts)
NextFirstPagesText(revision, text, pageNo, pageTextRaw) ==
    IF revision = "enhanced" /\ pageNo <= 3
    THEN text \o pageTextRaw \o <<Run("LF", 1)>>
    ELSE text

\* if (allChunks.length === 0) throw new Error('SCANNED_PDF_DETECTED')
\* services/pdfService.ts has no such check.
ScannedCheckThrows(revision, chunks) == revision = "enhanced" /\ Len(chunks) = 0

\* parsePdf(file) is called: file.arrayBuffer() is awaited
Init ==
    /\ chunkCall = ChunkIdle
    /\ sidebar = SidebarIdle
    /\ normCall = NormIdle
    /\ app = AppIdle
    /\ rev \in {"basic", "enhanced"}
    /\ file \in FileSamples
    /\ pc = "arrayBuffer"
    /\ numPages = 0 /\ i = 0
    /\ pageTexts = <<>> /\ allChunks = <<>> /\ chunkIdCounter = 0
    /\ firstPagesText = <<>> /\ outline = <<>> /\ stack = <<>>
    /\ metadata = NoMetadata
    /\ result = [status |-> "pending"]
    /\ hist = [NoHistory EXCEPT !.calls = <<[name |-> "arrayBuffer"]>>]

\* parsePdf rejects with the error e that one of its awaits threw
Reject(e) ==
    /\ result' = Rejected(e)
    /\ pc' = "done"

\* await file.arrayBuffer() gives the bytes
ArrayBufferReturns ==
    /\ pc = "arrayBuffer"
    /\ pc' = "getDocument"
    /\ Called([name |-> "getDocument"])
    /\ UNCHANGED <<chunkCall, normCall, sidebar, app, rev, file, numPages, i, pageTexts, allChunks,
                   chunkIdCounter, firstPagesText, outline, stack, metadata, result>>

\* await file.arrayBuffer() throws
ArrayBufferThrows ==
    /\ pc = "arrayBuffer"
    /\ Reject("READ_ERROR")
    /\ UNCHANGED <<chunkCall, normCall, sidebar, app, rev, file, numPages, i, pageTexts, allChunks,
                   chunkIdCounter, firstPagesText, outline, stack, metadata, hist>>

\* await pdfjsLib.getDocument(...).promise gives a document of n pages; the
\* loop is entered and pdf.getPage(1) awaited
GetDocumentReturns ==
    /\ pc = "getDocument"
    /\ \E n \in 1..MaxPages : numPages' = n
    /\ i' = 1
    /\ pc' = "getPage"
    /\ Called([name |-> "getPage", page |-> 1])
    /\ UNCHANGED <<chunkCall, normCall, sidebar, app, rev, file, pageTexts, allChunks,
                   chunkIdCounter, firstPagesText, outline, stack, metadata, result>>

\* pdfjsLib.getDocument rejects (not a PDF, damaged, password-protected)
GetDocumentThrows ==
    /\ pc = "getDocument"
    /\ Reject("INVALID_PDF")
    /\ UNCHANGED <<chunkCall, normCall, sidebar, app, rev, file, numPages, i, pageTexts, allChunks,
                   chunkIdCounter, firstPagesText, outline, stack, metadata, hist>>

\* await pdf.getPage(i) gives the page; page.getTextContent() is awaited
GetPageReturns ==
    /\ pc = "getPage"
    /\ pc' = "getTextContent"
    /\ Called([name |-> "getTextContent", page |-> i])
    /\ UNCHANGED <<chunkCall, normCall, sidebar, app, rev, file, numPages, i, pageTexts, allChunks,
                   chunkIdCounter, firstPagesText, outline, stack, metadata, result>>

\* await pdf.getPage(i) throws: nothing in the loop catches it
GetPageThrows ==
    /\ pc = "getPage"
    /\ Reject("PAGE_ERROR")
    /\ UNCHANGED <<chunkCall, normCall, sidebar, app, rev, file, numPages, i, pageTexts, allChunks,
                   chunkIdCounter, firstPagesText, outline, stack, metadata, hist>>

GetTextContentReturnsOutlineEarly ==
    /\ pc = "getTextContent"
    /\ \E items \in PageItemSamples :
          LET pageTextRaw == PageTextRaw(items)
              pageChunks == PageChunks(rev, pageTextRaw, i, chunkIdCounter)
              chunks == NextAllChunks(allChunks, pageChunks)
          IN  /\ pageTexts' = Append(pageTexts, pageTextRaw)
              /\ firstPagesText' = NextFirstPagesText(rev, firstPagesText, i, pageTextRaw)
              /\ chunkIdCounter' = NextChunkIdCounter(chunkIdCounter, pageChunks)
              /\ allChunks' = chunks
              /\ i' = i + 1
              /\ IF i + 1 <= numPages /\ chunks = <<>>
                 THEN /\ pc' = "getPage"
                      /\ Called([name |-> "getPage", page |-> i + 1])
                      /\ UNCHANGED result
                 ELSE IF ScannedCheckThrows(rev, chunks)
                 THEN /\ Reject("SCANNED_PDF_DETECTED")
                      /\ UNCHANGED hist
                 ELSE /\ pc' = "getOutline"
                      /\ Called([name |-> "getOutline"])
                      /\ UNCHANGED result
    /\ UNCHANGED <<chunkCall, normCall, sidebar, app, rev, file, numPages, outline, stack, metadata>>

GetTextContentReturnsEarlyExit ==
    /\ pc = "getTextContent"
    /\ \E items \in PageItemSamples :
          LET pageTextRaw == PageTextRaw(items)
              pageChunks == PageChunks(rev, pageTextRaw, i, chunkIdCounter)
              chunks == NextAllChunks(allChunks, pageChunks)
          IN  /\ pageTexts' = Append(pageTexts, pageTextRaw)
              /\ firstPagesText' = NextFirstPagesText(rev, firstPagesText, i, pageTextRaw)
              /\ chunkIdCounter' = NextChunkIdCounter(chunkIdCounter, pageChunks)
              /\ allChunks' = chunks
              /\ i' = i + 1
              /\ IF ScannedCheckThrows(rev, chunks)
                 THEN /\ Reject("SCANNED_PDF_DETECTED")
                      /\ UNCHANGED hist
                 ELSE IF i + 1 <= numPages
                 THEN /\ pc' = "getPage"
                      /\ Called([name |-> "getPage", page |-> i + 1])
                      /\ UNCHANGED result
                 ELSE IF ScannedCheckThrows(rev, chunks)
                 THEN /\ Reject("SCANNED_PDF_DETECTED")
                      /\ UNCHANGED hist
                 ELSE /\ pc' = "getOutline"
                      /\ Called([name |-> "getOutline"])
                      /\ UNCHANGED result
    /\ UNCHANGED <<chunkCall, normCall, sidebar, app, rev, file, numPages, outline, stack, metadata>>

GetTextContentReturnsOutlineFirst ==
    /\ pc = "getTextContent"
    /\ \E items \in PageItemSamples :
          LET pageTextRaw == PageTextRaw(items)
              pageChunks == PageChunks(rev, pageTextRaw, i, chunkIdCounter)
              chunks == NextAllChunks(allChunks, pageChunks)
          IN  /\ pageTexts' = Append(pageTexts, pageTextRaw)
              /\ firstPagesText' = NextFirstPagesText(rev, firstPagesText, i, pageTextRaw)
              /\ chunkIdCounter' = NextChunkIdCounter(chunkIdCounter, pageChunks)
              /\ allChunks' = chunks
              /\ i' = i + 1
              /\ IF i + 1 <= numPages
                 THEN /\ pc' = "getPage"
                      /\ Called([name |-> "getPage", page |-> i + 1])
                      /\ UNCHANGED result
                 ELSE IF ScannedCheckThrows(rev, chunks)
                 THEN /\ Reject("SCANNED_PDF_DETECTED")
                      /\ Called([name |-> "getOutline"])
                 ELSE /\ pc' = "getOutline"
                      /\ Called([name |-> "getOutline"])
                      /\ UNCHANGED result
    /\ UNCHANGED <<chunkCall, normCall, sidebar, app, rev, file, numPages, outline, stack, metadata>>

\* await page.getTextContent() gives the items of page i.  The body of the
\* loop runs to its end; then either the next page is asked for, or the loop
\* is left, the scanned-document check is made and pdf.getOutline() awaited.
GetTextContentReturns ==
    /\ pc = "getTextContent"
    /\ \E items \in PageItemSamples :
          LET pageTextRaw == PageTextRaw(items)
              pageChunks == PageChunks(rev, pageTextRaw, i, chunkIdCounter)
              chunks == NextAllChunks(allChunks, pageChunks)
          IN  /\ pageTexts' = Append(pageTexts, pageTextRaw)
              /\ firstPagesText' = NextFirstPagesText(rev, firstPagesText, i, pageTextRaw)
              /\ chunkIdCounter' = NextChunkIdCounter(chunkIdCounter, pageChunks)
              /\ allChunks' = chunks
              /\ i' = i + 1
              /\ IF i + 1 <= numPages
                 THEN /\ pc' = "getPage"
                      /\ Called([name |-> "getPage", page |-> i + 1])
                      /\ UNCHANGED result
                 ELSE IF ScannedCheckThrows(rev, chunks)
                 THEN /\ Reject("SCANNED_PDF_DETECTED")
                      /\ UNCHANGED hist
                 ELSE /\ pc' = "getOutline"
                      /\ Called([name |-> "getOutline"])
                      /\ UNCHANGED result
    /\ UNCHANGED <<chunkCall, normCall, sidebar, app, rev, file, numPages, outline, stack, metadata>>

\* await page.getTextContent() throws: nothing in the loop catches it
GetTextContentThrows ==
    /\ pc = "getTextContent"
    /\ Reject("TEXT_ERROR")
    /\ UNCHANGED <<chunkCall, normCall, sidebar, app, rev, file, numPages, i, pageTexts, allChunks,
                   chunkIdCounter, firstPagesText, outline, stack, metadata, hist>>

-----------------------------------------------------------------------------
(* processOutline.                                                         *)

\* PdfOutline.pageNumber: number | null
Null == [tag |-> "null"]

Num(n) == [tag |-> "number", v |-> n]

\* node.dest of a raw outline node: absent, a string naming a destination,
\* or an explicit destination array whose first element refers to a page.
\* The reference to page p of the document is written p.
NoDest == [kind |-> "none"]

NamedDest(name) == [kind |-> "name", name |-> name]

ArrayDest(ref) == [kind |-> "array", ref |-> ref]

DestSamples == {NoDest, NamedDest("ch1"), NamedDest("gone"), ArrayDest(1), ArrayDest(2)}

RECURSIVE UntitledForests(_)
\* The forests of exactly m nodes, every node with an empty title
UntitledForests(m) ==
    IF m = 0 THEN { <<>> }
    ELSE UNION { { <<[title |-> "", dest |-> d, items |-> sub]>> \o rest :
                     d \in DestSamples,
                     sub \in UntitledForests(j - 1), rest \in UntitledForests(m - j) } :
                 j \in 1..m }

RECURSIVE Titled(_, _)
\* The forest with every node titled by its position: "1", "2", "2.1", ...
Titled(nodes, prefix) ==
    [j \in 1..Len(nodes) |->
        [nodes[j] EXCEPT !.title = prefix \o ToString(j),
                         !.items = Titled(@, prefix \o ToString(j) \o ".")]]

\* The raw outlines (arrays of nodes {title, dest, items}) of at most
\* maxNodes nodes, all titles different
RawOutlines(maxNodes) ==
    { Titled(f, "") : f \in UNION { UntitledForests(m) : m \in 0..maxNodes } }

\* What pdf.getDestination(name) resolves to in the document at hand: the
\* destination array registered under the name, null for an unknown name.
NamedDestination(name) == IF name = "ch1" THEN ArrayDest(1) ELSE NoDest

\* Values of JavaScript other than null and the numbers
Undefined == [tag |-> "undefined"]

NaN == [tag |-> "NaN"]

JsString(str) == [tag |-> "string", chars |-> str]

\* What pdf.getPageIndex(ref) resolves to: the zero-based index of the page
PageIndex(ref) == Num(ref - 1)

PageNumberOfIndexRaw(pageIndex) == pageIndex

\* pageNumber = pageIndex + 1, with the + of JavaScript: a number is
\* incremented, null counts as 0, undefined gives NaN, and a string has "1"
\* appended
PageNumberOfIndex(pageIndex) ==
    CASE pageIndex.tag = "number" -> Num(pageIndex.v + 1)
      [] pageIndex.tag = "null" -> Num(1)
      [] pageIndex.tag = "undefined" -> NaN
      [] pageIndex.tag = "NaN" -> NaN
      [] pageIndex.tag = "string" -> JsString(pageIndex.chars \o "1")

NewFrameReversed(nodes) ==
    [nodes |-> [j \in 1..Len(nodes) |-> nodes[Len(nodes) + 1 - j]], k |-> 1,
     result |-> <<>>, dest |-> NoDest, pageNumber |-> Null]

\* One activation of processOutline(pdf, nodes): the loop is at nodes[k],
\* result holds the items pushed so far, dest and pageNumber are those of
\* the node under way.
NewFrame(nodes) ==
    [nodes |-> nodes, k |-> 1, result |-> <<>>, dest |-> NoDest, pageNumber |-> Null]

CurrentNode(stk) == stk[Len(stk)].nodes[stk[Len(stk)].k]

\* The position of the node under way in the raw outline: its index at each level
CurrentPath(stk) == [j \in 1..Len(stk) |-> stk[j].k]

DescendNoChildren(stk) == stk \o <<NewFrame(<<>>)>>

DescendItemsTwice(stk) ==
    stk \o <<NewFrame(CurrentNode(stk).items \o CurrentNode(stk).items)>>

\* items: await processOutline(pdf, node.items || []) is called
Descend(stk) == stk \o <<NewFrame(CurrentNode(stk).items)>>

RECURSIVE Resume(_)
\* processOutline runs on from the start of the loop body of the innermost
\* activation to its next await of a lookup, or to the return of the
\* outermost activation.  An activation whose loop is over returns: its
\* caller builds the item {title, pageNumber, items}, pushes it and goes on
\* to its next node.
ResumeFrom(stk) ==
    LET top == stk[Len(stk)]
    IN  IF top.k > Len(top.nodes)
        THEN IF Len(stk) = 1 THEN [stack |-> stk, wait |-> "return"]
             ELSE LET caller == stk[Len(stk) - 1]
                      item == [title |-> caller.nodes[caller.k].title,
                               pageNumber |-> caller.pageNumber,
                               items |-> top.result]
                  IN  Resume(SubSeq(stk, 1, Len(stk) - 2) \o
                             <<[caller EXCEPT !.result = Append(@, item), !.k = @ + 1,
                                              !.dest = NoDest, !.pageNumber = Null]>>)
        ELSE LET dest == top.nodes[top.k].dest
             IN  IF dest.kind = "name"
                 THEN [stack |-> [stk EXCEPT ![Len(stk)].dest = dest],
                       wait |-> "getDestination"]
                 ELSE IF dest.kind = "array"
                 THEN [stack |-> [stk EXCEPT ![Len(stk)].dest = dest],
                       wait |-> "getPageIndex"]
                 ELSE Resume(Descend(stk))

\* ResumeFrom on the stack stk, with stk evaluated once
Resume(stk) == CHOOSE r \in { ResumeFrom(s) : s \in {stk} } : TRUE

\* file.name.replace('.pdf', '')
StripPdf(name) ==
    CASE name = "book.pdf" -> "book"
      [] name = "a.pdf" -> "a"
      [] OTHER -> name

LookupCall(r) ==
    IF r.wait = "getDestination"
    THEN [name |-> "getDestination", dest |-> CurrentNode(r.stack).dest.name,
          path |-> CurrentPath(r.stack)]
    ELSE [name |-> "getPageIndex", ref |-> r.stack[Len(r.stack)].dest.ref,
          path |-> CurrentPath(r.stack)]

\* The outline is settled as o: services/pdfService.ts returns {chunks,
\* outline}; the later revision sets up metadata and awaits pdf.getMetadata().
FinishOutline(o, h) ==
    /\ outline' = o
    /\ stack' = <<>>
    /\ IF rev = "basic"
       THEN /\ result' = Resolved([chunks |-> allChunks, outline |-> o])
            /\ pc' = "done"
            /\ hist' = h
            /\ UNCHANGED metadata
       ELSE /\ metadata' = [NoMetadata EXCEPT !.title = StripPdf(file.name)]
            /\ pc' = "getMetadata"
            /\ hist' = [h EXCEPT !.calls = Append(@, [name |-> "getMetadata"])]
            /\ UNCHANGED result

\* processOutline goes on from the stack stk to its next lookup or its return
ContinueOutline(stk, h) ==
    \E r \in {Resume(stk)} :
        IF r.wait = "return"
        THEN FinishOutline(r.stack[1].result, h)
        ELSE /\ stack' = r.stack
             /\ pc' = r.wait
             /\ hist' = [h EXCEPT !.calls = Append(@, LookupCall(r))]
             /\ UNCHANGED <<outline, metadata, result>>

\* await pdf.getOutline() gives an array of nodes: processOutline is called
GetOutlineReturns(maxNodes) ==
    /\ pc = "getOutline"
    /\ \E raw \in RawOutlines(maxNodes) :
          ContinueOutline(<<NewFrame(raw)>>,
                          [hist EXCEPT !.rawOutline = raw, !.outlineResult = "array"])
    /\ UNCHANGED <<chunkCall, normCall, sidebar, app, rev, file, numPages, i, pageTexts, allChunks,
                   chunkIdCounter, firstPagesText>>

\* await pdf.getOutline() gives null: the document has no outline
GetOutlineReturnsNull ==
    /\ pc = "getOutline"
    /\ FinishOutline(outline, [hist EXCEPT !.outlineResult = "null"])
    /\ UNCHANGED <<chunkCall, normCall, sidebar, app, rev, file, numPages, i, pageTexts, allChunks,
                   chunkIdCounter, firstPagesText>>

GetOutlineThrowsUncaught ==
    /\ pc = "getOutline"
    /\ Reject("OUTLINE_ERROR")
    /\ hist' = [hist EXCEPT !.outlineResult = "threw"]
    /\ UNCHANGED <<chunkCall, normCall, sidebar, app, rev, file, numPages, i, pageTexts, allChunks,
                   chunkIdCounter, firstPagesText, outline, stack, metadata>>

\* A lookup of the node under way returned value
Returned(h, name, value) ==
    [h EXCEPT !.returned = @ \cup {[name |-> name, path |-> CurrentPath(stack),
                                     value |-> value]}]

\* await pdf.getOutline() throws: caught, console.error
GetOutlineThrows ==
    /\ pc = "getOutline"
    /\ FinishOutline(outline, [hist EXCEPT !.outlineResult = "threw"])
    /\ UNCHANGED <<chunkCall, normCall, sidebar, app, rev, file, numPages, i, pageTexts, allChunks,
                   chunkIdCounter, firstPagesText>>

AfterLookupThrowsSkipChildren(stk) == DescendNoChildren(stk)

\* catch (e) { console.warn(...) }: pageNumber stays null, the item is built
AfterLookupThrows(stk) == Descend(stk)

\* dest = await pdf.getDestination(dest) gives the destination array or null
GetDestinationReturns ==
    /\ pc = "getDestination"
    /\ LET dest == NamedDestination(CurrentNode(stack).dest.name)
           stk == [stack EXCEPT ![Len(stack)].dest = dest]
           h == Returned(hist, "getDestination", dest)
       IN  IF dest.kind = "array"
           THEN /\ stack' = stk
                /\ pc' = "getPageIndex"
                /\ hist' = [h EXCEPT !.calls =
                               Append(@, [name |-> "getPageIndex", ref |-> dest.ref,
                                          path |-> CurrentPath(stack)])]
                /\ UNCHANGED <<outline, metadata, result>>
           ELSE ContinueOutline(Descend(stk), h)
    /\ UNCHANGED <<chunkCall, normCall, sidebar, app, rev, file, numPages, i, pageTexts, allChunks,
                   chunkIdCounter, firstPagesText>>

\* await pdf.getDestination(dest) throws
GetDestinationThrows ==
    /\ pc = "getDestination"
    /\ ContinueOutline(AfterLookupThrows(stack),
                       [hist EXCEPT !.failed = @ \cup {CurrentPath(stack)}])
    /\ UNCHANGED <<chunkCall, normCall, sidebar, app, rev, file, numPages, i, pageTexts, allChunks,
                   chunkIdCounter, firstPagesText>>

\* const pageIndex = await pdf.getPageIndex(dest[0]) gives pageIndex:
\* pageNumber is set, and the item of the node is built
PageIndexGiven(pageIndex) ==
    LET stk == [stack EXCEPT ![Len(stack)].pageNumber = PageNumberOfIndex(pageIndex)]
    IN  ContinueOutline(Descend(stk), Returned(hist, "getPageIndex", pageIndex))

\* const pageIndex = await pdf.getPageIndex(dest[0]) gives the index of a
\* page of the document
GetPageIndexReturns ==
    /\ pc = "getPageIndex"
    /\ stack[Len(stack)].dest.ref \in 1..numPages
    /\ PageIndexGiven(PageIndex(stack[Len(stack)].dest.ref))
    /\ UNCHANGED <<chunkCall, normCall, sidebar, app, rev, file, numPages, i, pageTexts, allChunks,
                   chunkIdCounter, firstPagesText>>

\* What a getPageIndex that does not keep its contract may resolve to
\* instead of the index of a page: nothing, null, a string, a negative number
MalformedPageIndexes == {Undefined, Null, JsString("x"), Num(-1), Num(-2)}

\* const pageIndex = await pdf.getPageIndex(dest[0]) gives malformed data
GetPageIndexReturnsMalformed ==
    /\ pc = "getPageIndex"
    /\ \E pageIndex \in MalformedPageIndexes : PageIndexGiven(pageIndex)
    /\ UNCHANGED <<chunkCall, normCall, sidebar, app, rev, file, numPages, i, pageTexts, allChunks,
                   chunkIdCounter, firstPagesText>>

\* dest = await pdf.getDestination(dest) gives a value that is neither null
\* nor an array: Array.isArray(dest) fails and no page index is looked up
GetDestinationReturnsMalformed ==
    /\ pc = "getDestination"
    /\ LET dest == [kind |-> "object"]
           stk == [stack EXCEPT ![Len(stack)].dest = dest]
       IN  ContinueOutline(Descend(stk), Returned(hist, "getDestination", dest))
    /\ UNCHANGED <<chunkCall, normCall, sidebar, app, rev, file, numPages, i, pageTexts, allChunks,
                   chunkIdCounter, firstPagesText>>

\* The promise of the lookup awaited never settles: the await of
\* processOutline never resumes
LookupHangs ==
    /\ pc' = "hung"
    /\ hist' = [hist EXCEPT !.hung = CurrentPath(stack)]
    /\ UNCHANGED <<chunkCall, normCall, sidebar, app, rev, file, numPages, i, pageTexts, allChunks,
                   chunkIdCounter, firstPagesText, outline, stack, metadata, result>>

\* await pdf.getDestination(dest) never completes
GetDestinationHangs ==
    /\ pc = "getDestination"
    /\ LookupHangs

\* await pdf.getPageIndex(dest[0]) never completes
GetPageIndexHangs ==
    /\ pc = "getPageIndex"
    /\ LookupHangs

GetPageIndexThrowsUncaught ==
    /\ pc = "getPageIndex"
    /\ Reject("LOOKUP_ERROR")
    /\ hist' = [hist EXCEPT !.failed = @ \cup {CurrentPath(stack)}]
    /\ UNCHANGED <<chunkCall, normCall, sidebar, app, rev, file, numPages, i, pageTexts, allChunks,
                   chunkIdCounter, firstPagesText, outline, stack, metadata>>

\* await pdf.getPageIndex(dest[0]) throws (always so for a reference that is
\* no page of the document)
GetPageIndexThrows ==
    /\ pc = "getPageIndex"
    /\ ContinueOutline(AfterLookupThrows(stack),
                       [hist EXCEPT !.failed = @ \cup {CurrentPath(stack)}])
    /\ UNCHANGED <<chunkCall, normCall, sidebar, app, rev, file, numPages, i, pageTexts, allChunks,
                   chunkIdCounter, firstPagesText>>

-----------------------------------------------------------------------------
(* parsePdf: metadata (not in services/pdfService.ts).                     *)
(* An absent, undefined or null field is written "": all are falsy.        *)

\* String.length of the titles the model uses
StrLen(str) ==
    CASE str = "" -> 0
      [] str = "a" -> 1
      [] str = "It" -> 2
      [] str = "book" -> 4
      [] str = "Dune" -> 4
      [] str = "Untitled" -> 8

\* What pdf.getMetadata() may give as meta.info
InfoSamples ==
    { [Title |-> "", Author |-> ""],
      [Title |-> "Untitled", Author |-> ""],
      [Title |-> "It", Author |-> ""],
      [Title |-> "Dune", Author |-> "F. Herbert"] }

\* What generateCoverImage(pdf) may give: a data URL, or null (no 2d
\* context, or getPage or render threw and it caught that)
CoverSamples == { "data:image/jpeg", "" }

\* What extractMetadataFromContent(firstPagesText) may give: the fields its
\* three patterns found
HeuristicSamples ==
    { [NoMetadata EXCEPT !.title = ""],
      [NoMetadata EXCEPT !.author = "H. Author", !.edition = "2nd Edition"] }

\* What fetchGoogleBooksMetadata may give: {} (no item, response not ok, or
\* fetch threw and it caught that), or the fields of the first volume
GoogleSamples ==
    { [NoMetadata EXCEPT !.title = ""],
      [NoMetadata EXCEPT !.author = "G. Author", !.publisher = "G. Press",
                         !.coverUrl = "https://books.google.com/cover"] }

\* { ...metadata, ...heuristicMeta }
Spread(m, h) == [f \in DOMAIN m |-> IF h[f] # "" THEN h[f] ELSE m[f]]

\* if (meta?.info?.Title && meta.info.Title.trim() !== 'Untitled') ...
\* if (meta?.info?.Author) ...
WithInfo(m, info) ==
    [m EXCEPT !.title = IF info.Title # "" /\ info.Title # "Untitled" THEN info.Title ELSE @,
              !.author = IF info.Author # "" THEN info.Author ELSE @]

\* author: googleMeta.author || metadata.author, and so on
WithGoogle(m, g) ==
    [m EXCEPT !.author = IF g.author # "" THEN g.author ELSE @,
              !.publisher = IF g.publisher # "" THEN g.publisher ELSE @,
              !.coverUrl = IF g.coverUrl # "" THEN g.coverUrl ELSE @]

\* return { chunks: allChunks, outline, metadata }
Return(m) ==
    /\ result' = Resolved([chunks |-> allChunks, outline |-> outline, metadata |-> m])
    /\ metadata' = m
    /\ pc' = "done"

\* await pdf.getMetadata() gives meta; generateCoverImage(pdf) is awaited
GetMetadataReturns ==
    /\ pc = "getMetadata"
    /\ \E info \in InfoSamples :
          /\ metadata' = WithInfo(metadata, info)
          /\ hist' = [hist EXCEPT !.calls = Append(@, [name |-> "generateCoverImage"]),
                                  !.meta = [status |-> "returned", info |-> info]]
    /\ pc' = "generateCoverImage"
    /\ UNCHANGED <<chunkCall, normCall, sidebar, app, rev, file, numPages, i, pageTexts, allChunks,
                   chunkIdCounter, firstPagesText, outline, stack, result>>

GetMetadataThrowsUncaught ==
    /\ pc = "getMetadata"
    /\ Reject("METADATA_ERROR")
    /\ hist' = [hist EXCEPT !.meta = [status |-> "threw"]]
    /\ UNCHANGED <<chunkCall, normCall, sidebar, app, rev, file, numPages, i, pageTexts, allChunks,
                   chunkIdCounter, firstPagesText, outline, stack, metadata>>

\* await pdf.getMetadata() throws: caught, console.warn, and parsePdf returns
GetMetadataThrows ==
    /\ pc = "getMetadata"
    /\ Return(metadata)
    /\ hist' = [hist EXCEPT !.meta = [status |-> "threw"]]
    /\ UNCHANGED <<chunkCall, normCall, sidebar, app, rev, file, numPages, i, pageTexts, allChunks,
                   chunkIdCounter, firstPagesText, outline, stack>>

\* await generateCoverImage(pdf) gives the cover; the content heuristics are
\* merged in; then either the Google Books lookup is awaited (a title of
\* more than 3 characters) or parsePdf returns
GenerateCoverImageReturns ==
    /\ pc = "generateCoverImage"
    /\ \E cover \in CoverSamples, heuristicMeta \in HeuristicSamples :
          LET m == Spread([metadata EXCEPT !.coverUrl = cover], heuristicMeta)
          IN  IF m.title # "" /\ StrLen(m.title) > 3
              THEN /\ metadata' = m
                   /\ pc' = "fetchGoogleBooksMetadata"
                   /\ Called([name |-> "fetchGoogleBooksMetadata"])
                   /\ UNCHANGED result
              ELSE /\ Return(m)
                   /\ UNCHANGED hist
    /\ UNCHANGED <<chunkCall, normCall, sidebar, app, rev, file, numPages, i, pageTexts, allChunks,
                   chunkIdCounter, firstPagesText, outline, stack>>

\* await fetchGoogleBooksMetadata(...) gives googleMeta; parsePdf returns
FetchGoogleBooksMetadataReturns ==
    /\ pc = "fetchGoogleBooksMetadata"
    /\ \E googleMeta \in GoogleSamples : Return(WithGoogle(metadata, googleMeta))
    /\ UNCHANGED <<chunkCall, normCall, sidebar, app, rev, file, numPages, i, pageTexts, allChunks,
                   chunkIdCounter, firstPagesText, outline, stack, hist>>

-----------------------------------------------------------------------------
(* The specifications of parsePdf.                                         *)

Next ==
    \/ ArrayBufferReturns
    \/ ArrayBufferThrows
    \/ GetDocumentReturns
    \/ GetDocumentThrows
    \/ GetPageReturns
    \/ GetPageThrows
    \/ GetTextContentReturns
    \/ GetTextContentThrows
    \/ GetOutlineReturns(MaxParseOutlineNodes)
    \/ GetOutlineReturnsNull
    \/ GetOutlineThrows
    \/ GetDestinationReturns
    \/ GetDestinationThrows
    \/ GetPageIndexReturns
    \/ GetPageIndexThrows
    \/ GetMetadataReturns
    \/ GetMetadataThrows
    \/ GenerateCoverImageReturns
    \/ FetchGoogleBooksMetadataReturns

\* One parsePdf call from its start, with every behaviour of the collaborators
Spec == Init /\ [][Next]_vars

\* The loop is over for a document of two pages, the first with a line of
\* text and the second without any, and pdf.getOutline() is awaited.
InitOutline ==
    LET items1 == << <<Run("U+FB01", 1), Run("n", 1), Run("e", 1)>>,
                     <<Run("a", 3), Run(".", 1)>> >>
        raw1 == PageTextRaw(items1)
        raw2 == PageTextRaw(<<>>)
        chunks1 == PageChunks("enhanced", raw1, 1, 0)
        counter1 == NextChunkIdCounter(0, chunks1)
        chunks2 == PageChunks("enhanced", raw2, 2, counter1)
    IN  /\ chunkCall = ChunkIdle
        /\ sidebar = SidebarIdle
        /\ normCall = NormIdle
        /\ app = AppIdle
        /\ rev = "enhanced"
        /\ file = [name |-> "book.pdf"]
        /\ pc = "getOutline"
        /\ numPages = 2 /\ i = 3
        /\ pageTexts = <<raw1, raw2>>
        /\ allChunks = NextAllChunks(NextAllChunks(<<>>, chunks1), chunks2)
        /\ chunkIdCounter = NextChunkIdCounter(counter1, chunks2)
        /\ firstPagesText =
              NextFirstPagesText("enhanced",
                  NextFirstPagesText("enhanced", <<>>, 1, raw1), 2, raw2)
        /\ outline = <<>> /\ stack = <<>>
        /\ metadata = NoMetadata
        /\ result = [status |-> "pending"]
        /\ hist = [NoHistory EXCEPT !.calls =
              << [name |-> "arrayBuffer"], [name |-> "getDocument"],
                 [name |-> "getPage", page |-> 1], [name |-> "getTextContent", page |-> 1],
                 [name |-> "getPage", page |-> 2], [name |-> "getTextContent", page |-> 2],
                 [name |-> "getOutline"] >>]

NextOutline ==
    \/ GetOutlineReturns(MaxOutlineNodes)
    \/ GetOutlineReturnsNull
    \/ GetOutlineThrows
    \/ GetDestinationReturns
    \/ GetDestinationThrows
    \/ GetPageIndexReturns
    \/ GetPageIndexThrows

\* The outline step of one parsePdf call, on every raw outline of up to
\* MaxOutlineNodes nodes and with every behaviour of the lookups
SpecOutline == InitOutline /\ [][NextOutline]_vars

\* The outline step when every call awaited settles: getOutline and each
\* lookup return or throw
SpecOutlineFair == InitOutline /\ [][NextOutline]_vars /\ WF_vars(NextOutline)

\* The outline step with lookups that may also return malformed data
NextOutlineMalformed ==
    \/ NextOutline
    \/ GetDestinationReturnsMalformed
    \/ GetPageIndexReturnsMalformed

SpecOutlineMalformed == InitOutline /\ [][NextOutlineMalformed]_vars

\* The outline step with lookups that may never complete

\* A lookup awaited settles, and processOutline runs on
LookupCompletes ==
    \/ GetDestinationReturns
    \/ GetDestinationThrows
    \/ GetPageIndexReturns
    \/ GetPageIndexThrows

NextOutlineHang ==
    \/ GetOutlineReturns(MaxHangOutlineNodes)
    \/ GetOutlineReturnsNull
    \/ GetOutlineThrows
    \/ LookupCompletes
    \/ GetDestinationHangs
    \/ GetPageIndexHangs

\* A lookup that is not one that hangs settles eventually: the only await
\* that stays pending for ever is one marked as hanging.
SpecOutlineHang == InitOutline /\ [][NextOutlineHang]_vars /\ WF_vars(LookupCompletes)

-----------------------------------------------------------------------------
(* normalizeText applied to a text drawn from a bounded set, and again to  *)
(* what it returned.                                                       *)

\* Characters of each class normalizeText treats: plain text, whitespace,
\* a ligature, a smart quote, a dash, the ellipsis, the no-break space, the
\* soft hyphen, a control character, and compatibility forms of the dash and
\* of the ellipsis.
NormChars ==
    {"a", " ", "LF", "-", "TAB", "U+FB01", "U+2019", "U+2014", "U+2026",
     "U+00A0", "U+00AD", "U+FE58", "U+FE19"}

NormInputs ==
    { Canon(Str(cs)) : cs \in UNION { [1..n -> NormChars] : n \in 0..MaxNormLen } }

InitNormalize ==
    /\ \E revision \in {"basic", "enhanced"}, text \in NormInputs :
          normCall = [state |-> "called", rev |-> revision, text |-> text, outputs |-> <<>>]
    /\ chunkCall = ChunkIdle
    /\ sidebar = SidebarIdle
    /\ app = AppIdle
    /\ ParseIdle

\* normalizeText(text) returns; text is the result of the call before, if any
NormalizeText ==
    /\ normCall.state = "called"
    /\ Len(normCall.outputs) < MaxNormalizeCalls
    /\ LET text == IF normCall.outputs = <<>> THEN normCall.text
                   ELSE normCall.outputs[Len(normCall.outputs)]
       IN  normCall' = [normCall EXCEPT !.outputs = Append(@, Normalized(normCall.rev, text))]
    /\ UNCHANGED <<parseVars, chunkCall, sidebar, app>>

NextNormalize == NormalizeText

SpecNormalize == InitNormalize /\ [][NextNormalize]_vars

-----------------------------------------------------------------------------
(* The sidebar's page-to-chunk locator (components/Sidebar).  The sidebar  *)
(* is rendered with the chunks of the open book; a click on a chapter      *)
(* hands handleChapterClick that outline node's pageNumber.                *)

\* The chunk lists one parse can return, by their page numbers: ids count
\* from 0 and page numbers never decrease.
SidebarChunkLists ==
    LET pages == UNION { [1..n -> 1..MaxSidebarPage] : n \in 0..MaxSidebarChunks }
        sorted == { f \in pages : \A k \in 1..(Len(f) - 1) : f[k] <= f[k + 1] }
    IN  { [k \in 1..Len(f) |-> [id |-> k - 1, text |-> <<Run("a", 1)>>, pageNumber |-> f[k]]]
            : f \in sorted }

\* The pageNumber of an outline node: null, or a page of the document, which
\* may lie after the last page that has a chunk
ChapterPages == {Null} \cup { Num(p) : p \in 1..(MaxSidebarPage + 1) }

InitSidebar ==
    /\ \E chunks \in SidebarChunkLists : sidebar = [state |-> "shown", chunks |-> chunks]
    /\ chunkCall = ChunkIdle
    /\ normCall = NormIdle
    /\ app = AppIdle
    /\ ParseIdle

After(c, pageNumber) == c.pageNumber > pageNumber

\* c => c.pageNumber >= pageNumber
AtOrAfter(c, pageNumber) == c.pageNumber >= pageNumber

RECURSIVE findIndex(_, _, _)
\* chunks.findIndex(c => c.pageNumber >= pageNumber), scanning from the
\* k-th chunk: the 0-based index of the first chunk that passes, or -1
findIndex(chunks, pageNumber, k) ==
    IF k > Len(chunks) THEN -1
    ELSE IF AtOrAfter(chunks[k], pageNumber) THEN k - 1
    ELSE findIndex(chunks, pageNumber, k + 1)

handleChapterClickNullAsFirst(pageNumber) ==
    /\ sidebar.state \in {"shown", "clicked"}
    /\ LET targetIndex == findIndex(sidebar.chunks,
                                    IF pageNumber = Null THEN 0 ELSE pageNumber.v, 1)
       IN  sidebar' = [state |-> "clicked", chunks |-> sidebar.chunks,
                       pageNumber |-> pageNumber, targetIndex |-> targetIndex,
                       onChunkSelect |-> IF targetIndex # -1 THEN <<targetIndex>> ELSE <<>>,
                       onCloseMobile |-> IF targetIndex # -1 THEN 1 ELSE 0]
    /\ UNCHANGED <<parseVars, chunkCall, normCall, app>>

\* handleChapterClick(pageNumber)
handleChapterClick(pageNumber) ==
    /\ sidebar.state \in {"shown", "clicked"}
    /\ IF pageNumber = Null
       THEN sidebar' = [state |-> "clicked", chunks |-> sidebar.chunks,
                        pageNumber |-> pageNumber, targetIndex |-> Null,
                        onChunkSelect |-> <<>>, onCloseMobile |-> 0]
       ELSE LET targetIndex == findIndex(sidebar.chunks, pageNumber.v, 1)
            IN  sidebar' = [state |-> "clicked", chunks |-> sidebar.chunks,
                            pageNumber |-> pageNumber, targetIndex |-> targetIndex,
                            onChunkSelect |-> IF targetIndex # -1 THEN <<targetIndex>> ELSE <<>>,
                            onCloseMobile |-> IF targetIndex # -1 THEN 1 ELSE 0]
    /\ UNCHANGED <<parseVars, chunkCall, normCall, app>>

HandleChapterClick == \E pageNumber \in ChapterPages : handleChapterClick(pageNumber)

NextSidebar == HandleChapterClick

\* Clicks on chapters of the sidebar, for every chunk list of up to
\* MaxSidebarChunks chunks on pages up to MaxSidebarPage
SpecSidebar == InitSidebar /\ [][NextSidebar]_vars

-----------------------------------------------------------------------------
(* The sidebar's current-chapter detection (components/Sidebar): the       *)
(* sidebar is rendered with an outline, the chunks and the current index,  *)
(* and computes activeChapterNode.                                         *)

RECURSIVE PagedForests(_)
\* The forests of exactly m outline nodes {title, pageNumber, items}, every
\* node with an empty title and with no page or a page up to MaxSidebarPage
PagedForests(m) ==
    IF m = 0 THEN { <<>> }
    ELSE UNION { { <<[title |-> "", pageNumber |-> p, items |-> sub]>> \o rest :
                     p \in {Null} \cup { Num(n) : n \in 1..MaxSidebarPage },
                     sub \in PagedForests(j - 1), rest \in PagedForests(m - j) } :
                 j \in 1..m }

\* The outlines the sidebar may be given
SidebarOutlines ==
    { Titled(f, "") : f \in UNION { PagedForests(m) : m \in 0..MaxChapterNodes } }

\* The chunks and the current index the sidebar may be given: one chunk on
\* each of the first n pages
SidebarPositions ==
    UNION { { [chunks |-> [k \in 1..n |->
                             [id |-> k - 1, text |-> <<Run("a", 1)>>, pageNumber |-> k]],
               currentIndex |-> c] : c \in 0..(IF n = 0 THEN 0 ELSE n - 1) } :
            n \in 0..MaxSidebarPage }

InitChapters ==
    /\ \E o \in SidebarOutlines, pos \in SidebarPositions :
          sidebar = [state |-> "mounted", outline |-> o, chunks |-> pos.chunks,
                     currentIndex |-> pos.currentIndex, given |-> o]
    /\ chunkCall = ChunkIdle
    /\ normCall = NormIdle
    /\ app = AppIdle
    /\ ParseIdle

RECURSIVE flattenOutline(_, _)
\* flattenOutline(nodes): every node followed by the nodes below it.  A node
\* of the array returned is the object of the tree, named here by its
\* position in the tree.
flattenOutline(nodes, prefix) ==
    IF nodes = <<>> THEN <<>>
    ELSE Flatten([j \in 1..Len(nodes) |->
            <<[path |-> prefix \o <<j>>, title |-> nodes[j].title,
               pageNumber |-> nodes[j].pageNumber]>>
            \o flattenOutline(nodes[j].items, prefix \o <<j>>)])

\* a.pageNumber || 0
PageOrZero(node) == IF node.pageNumber = Null THEN 0 ELSE node.pageNumber.v

RECURSIVE InsertByPage(_, _)
\* node put into the sorted array after the nodes whose page is not greater
InsertByPage(sorted, node) ==
    IF sorted = <<>> THEN <<node>>
    ELSE IF PageOrZero(sorted[Len(sorted)]) <= PageOrZero(node) THEN Append(sorted, node)
    ELSE Append(InsertByPage(SubSeq(sorted, 1, Len(sorted) - 1), node), sorted[Len(sorted)])

RECURSIVE SortByPage(_)
\* .sort((a, b) => (a.pageNumber || 0) - (b.pageNumber || 0)): ascending,
\* and stable, so nodes of one page keep the order of the flattened array
SortByPage(flat) ==
    IF flat = <<>> THEN <<>>
    ELSE InsertByPage(SortByPage(SubSeq(flat, 1, Len(flat) - 1)), flat[Len(flat)])

\* const currentPage = chunks[currentIndex]?.pageNumber || 1
currentPage(chunks, currentIndex) ==
    IF currentIndex + 1 \in 1..Len(chunks) THEN chunks[currentIndex + 1].pageNumber ELSE 1

QualifiesStrictlyBefore(node, page) ==
    node.pageNumber # Null /\ node.pageNumber.v < page

\* node.pageNumber !== null && node.pageNumber <= currentPage
Qualifies(node, page) ==
    node.pageNumber # Null /\ node.pageNumber.v <= page

RECURSIVE LastCandidate(_, _, _)
\* for (const node of flat) { if (...) candidate = node }, from candidate on
LastCandidate(flat, page, candidate) ==
    IF flat = <<>> THEN candidate
    ELSE LastCandidate(Tail(flat), page,
                       IF Qualifies(Head(flat), page) THEN Head(flat) ELSE candidate)

\* The useMemo callback of activeChapterNode
activeChapterNode(o, page) ==
    LastCandidate(SortByPage(flattenOutline(o, <<>>)), page, Null)

OutlineSortedInPlace(o) ==
    LET flat == SortByPage([j \in 1..Len(o) |-> [path |-> <<j>>, pageNumber |-> o[j].pageNumber]])
    IN  [j \in 1..Len(o) |-> o[flat[j].path[1]]]

\* The outline prop once activeChapterNode is computed: flattenOutline
\* returns a new array (result, concat), which is what sort reorders; no
\* node and no items array of the tree is written
OutlineAfterDetection(o) == o

\* The sidebar renders: activeChapterNode is computed for its props
RenderChapters ==
    /\ sidebar.state = "mounted"
    /\ sidebar' = [sidebar EXCEPT
          !.state = "rendered",
          !.outline = OutlineAfterDetection(@)] @@
          [activeChapterNode |->
              activeChapterNode(sidebar.outline,
                                currentPage(sidebar.chunks, sidebar.currentIndex))]
    /\ UNCHANGED <<parseVars, chunkCall, normCall, app>>

NextChapters == RenderChapters

\* The current-chapter detection for every outline of up to MaxChapterNodes
\* nodes and every reading position
SpecChapters == InitChapters /\ [][NextChapters]_vars

-----------------------------------------------------------------------------
(* App (src/unnamed/part_008): the library, the reader and its audio.      *)
(*                                                                         *)
(* app holds the state of the component (useState), its refs, the audio    *)
(* element, the speech synthesis and the books storageService keeps.  A    *)
(* book is named by its place in the library and known by the number of    *)
(* its chunks.  A blob URL is named by the book and the chunk whose text   *)
(* generateAudio was given.  isPlayingRef and currentIndexRef hold the     *)
(* values of the last render whenever a handler or a callback runs.        *)
(* getLibrary returns what saveBook and updateProgress have stored.        *)
(* Bookmarks, book deletion, the voice and the speed are left out.         *)
(* Three fields record the past: ended, the chunk whose end the last step  *)
(* handled; touched, the books that were played or had a chunk toggled;    *)
(* replaced, whether an upload ever completed while a book was open in     *)
(* the reader, which opens the new book in place of the one being read.    *)

NoBook == 0

NoJump == -1

NoEnded == -1

\* the blob URL of the audio generated from chunk index of a book
BlobUrl(book, index) == [book |-> book, index |-> index]

\* blobUrl: '' and an audio element without src
NoUrl == BlobUrl(NoBook, -1)

\* new Map()
EmptyCache == [k \in {} |-> [blobUrl |-> NoUrl, isFetching |-> FALSE]]

\* Map.prototype.set
CacheSet(cache, k, item) ==
    [j \in (DOMAIN cache) \cup {k} |-> IF j = k THEN item ELSE cache[j]]

\* Map.prototype.delete
CacheDelete(cache, k) == [j \in (DOMAIN cache) \ {k} |-> cache[j]]

Max(a, b) == IF a >= b THEN a ELSE b

\* The state of App when it is mounted, with or without a saved API key
InitApp(savedKey) ==
    [currentView |-> "library", apiKey |-> savedKey, useNative |-> FALSE,
     isKeyModalOpen |-> FALSE, library |-> <<>>, isProcessingPdf |-> FALSE,
     activeBookId |-> NoBook, chunks |-> [book |-> NoBook, length |-> 0],
     currentIndex |-> 0, maxReadIndex |-> -1, isPlaying |-> FALSE,
     pendingJumpIndex |-> NoJump, audioCache |-> EmptyCache, requests |-> {},
     audioPlayer |-> [src |-> NoUrl, playing |-> FALSE], native |-> "idle",
     ended |-> NoEnded, replaced |-> FALSE, touched |-> {}]

InitReader ==
    /\ \E savedKey \in BOOLEAN : app = InitApp(savedKey)
    /\ chunkCall = ChunkIdle
    /\ normCall = NormIdle
    /\ sidebar = SidebarIdle
    /\ ParseIdle

\* audioPlayer.current.pause()
pauseAudio(a) == [a EXCEPT !.audioPlayer.playing = FALSE]

stopNative(a) == [a EXCEPT !.native = "idle"]

cleanupAudio(a) ==
    [stopNative(a) EXCEPT !.audioPlayer = [src |-> NoUrl, playing |-> FALSE],
                          !.audioCache = EmptyCache]

\* saveBook: the book stored for a parse result of so many chunks
saveBook(length) == [length |-> length, progressIndex |-> 0]

updateProgress(library, id, index) ==
    IF id \in DOMAIN library THEN [library EXCEPT ![id].progressIndex = index]
    ELSE library

\* handleNextChunk without the test of nextIndex against chunks.length
handleNextChunkPastEnd(a) ==
    LET current == a.currentIndex
    IN  [a EXCEPT !.maxReadIndex = Max(@, current), !.ended = current,
                  !.currentIndex = current + 1]

handleNextChunk(a) ==
    LET current == a.currentIndex
        marked == [a EXCEPT !.maxReadIndex = Max(@, current), !.ended = current]
        nextIndex == current + 1
    IN  IF nextIndex < a.chunks.length
        THEN [marked EXCEPT !.currentIndex = nextIndex]
        ELSE [marked EXCEPT !.isPlaying = FALSE]

openBook(a, id) ==
    LET book == a.library[id]
        savedProgress == book.progressIndex
    IN  [cleanupAudio([a EXCEPT !.isPlaying = FALSE]) EXCEPT
            !.activeBookId = id,
            !.chunks = [book |-> id, length |-> book.length],
            !.maxReadIndex = savedProgress,
            !.currentIndex = IF savedProgress < 0 THEN 0 ELSE savedProgress,
            !.currentView = "reader"]

handleBackToLibrary(a) ==
    [cleanupAudio([a EXCEPT !.isPlaying = FALSE]) EXCEPT
        !.activeBookId = NoBook,
        !.currentView = "library"]

handleToggleRead(a, index) ==
    IF index <= a.maxReadIndex
    THEN [a EXCEPT !.maxReadIndex = index - 1]
    ELSE [a EXCEPT !.maxReadIndex = index]

\* ReaderView: const isRead = index <= maxReadIndex
isRead(a, index) == index <= a.maxReadIndex

handleModeSwitch(a, mode) ==
    IF mode = "native"
    THEN [a EXCEPT !.useNative = TRUE, !.isKeyModalOpen = FALSE]
    ELSE [a EXCEPT !.useNative = FALSE, !.isKeyModalOpen = TRUE]

playBlob(a, url) == [a EXCEPT !.audioPlayer = [src |-> url, playing |-> TRUE]]

\* Up to the await of generateAudio: the call is in flight afterwards
fetchAudioForChunk(a, index, forcePlay) ==
    IF index >= a.chunks.length \/ ~a.apiKey THEN a
    ELSE IF index \in DOMAIN a.audioCache
    THEN LET item == a.audioCache[index]
         IN  IF ~item.isFetching /\ item.blobUrl # NoUrl /\ forcePlay
             THEN playBlob(a, item.blobUrl)
             ELSE a
    ELSE [a EXCEPT
            !.audioCache = CacheSet(@, index, [blobUrl |-> NoUrl, isFetching |-> TRUE]),
            !.requests = @ \cup {[index |-> index, book |-> a.chunks.book]}]

\* After the await of generateAudio, when it resolved
generateAudioResolved(a, request) ==
    LET url == BlobUrl(request.book, request.index)
        cached == [a EXCEPT
            !.requests = @ \ {request},
            !.audioCache = CacheSet(@, request.index,
                                    [blobUrl |-> url, isFetching |-> FALSE])]
    IN  IF request.index = a.currentIndex /\ a.isPlaying
        THEN playBlob(cached, url)
        ELSE cached

\* After the await of generateAudio, when it threw
generateAudioRejected(a, request) ==
    LET dropped == [a EXCEPT
            !.requests = @ \ {request},
            !.audioCache = CacheDelete(@, request.index)]
    IN  IF request.index = a.currentIndex /\ a.isPlaying
        THEN [dropped EXCEPT !.isPlaying = FALSE]
        ELSE dropped

playNativeChunk(a, index) ==
    IF index >= a.chunks.length
    THEN [a EXCEPT !.isPlaying = FALSE]
    ELSE [a EXCEPT !.native = "speaking"]

\* The body of the orchestrator effect
Orchestrator(a) ==
    IF a.currentView # "reader" \/ a.chunks.length = 0 THEN a
    ELSE IF a.isPlaying
    THEN IF a.useNative
         THEN playNativeChunk(pauseAudio(a), a.currentIndex)
         ELSE LET s == stopNative(a)
                  has == a.currentIndex \in DOMAIN s.audioCache
                  current ==
                      IF has /\ ~s.audioCache[a.currentIndex].isFetching
                             /\ s.audioCache[a.currentIndex].blobUrl # NoUrl
                      THEN playBlob(s, s.audioCache[a.currentIndex].blobUrl)
                      ELSE fetchAudioForChunk(s, a.currentIndex, TRUE)
              IN  IF a.currentIndex + 1 < a.chunks.length
                  THEN fetchAudioForChunk(current, a.currentIndex + 1, FALSE)
                  ELSE current
    ELSE stopNative(pauseAudio(a))

OrchestratorDeps(a) == <<a.currentIndex, a.isPlaying, a.useNative, a.currentView>>

\* The effect that persists maxReadIndex
PersistProgress(old, new) ==
    IF <<old.maxReadIndex, old.activeBookId>> # <<new.maxReadIndex, new.activeBookId>>
       /\ new.activeBookId # NoBook
    THEN [new EXCEPT !.library = updateProgress(@, new.activeBookId, new.maxReadIndex)]
    ELSE new

\* The effects of the render that follows a handler: each runs when one of
\* its dependencies changed, and once more when it changed one itself.
Rendered(old, new) ==
    LET persisted == PersistProgress(old, new)
        first == IF OrchestratorDeps(old) # OrchestratorDeps(persisted)
                 THEN Orchestrator(persisted) ELSE persisted
    IN  IF OrchestratorDeps(first) # OrchestratorDeps(persisted)
        THEN Orchestrator(first) ELSE first

handlePlayPause(a) ==
    IF a.isPlaying THEN [a EXCEPT !.isPlaying = FALSE]
    ELSE IF ~a.useNative /\ ~a.apiKey THEN [a EXCEPT !.isKeyModalOpen = TRUE]
    ELSE [a EXCEPT !.isPlaying = TRUE]

handleChunkSelect(a, index) ==
    IF a.isPlaying THEN [a EXCEPT !.pendingJumpIndex = index]
    ELSE [a EXCEPT !.currentIndex = index]

confirmJump(a) ==
    IF a.pendingJumpIndex # NoJump
    THEN LET jumped == [a EXCEPT !.currentIndex = a.pendingJumpIndex,
                                 !.pendingJumpIndex = NoJump]
         IN  IF ~a.useNative /\ ~a.apiKey
             THEN [jumped EXCEPT !.isKeyModalOpen = TRUE, !.isPlaying = FALSE]
             ELSE [jumped EXCEPT !.isPlaying = TRUE]
    ELSE a

cancelJump(a) == [a EXCEPT !.pendingJumpIndex = NoJump]

handleReset(a) ==
    stopNative(pauseAudio([a EXCEPT !.isPlaying = FALSE, !.currentIndex = 0]))

\* No modal covers the page: its buttons can be clicked
Clickable(a) == a.pendingJumpIndex = NoJump /\ ~a.isKeyModalOpen

\* The state a handler starts from.  ended names the chunk whose end the
\* last step handled, if it was handleNextChunk.
Before == [app EXCEPT !.ended = NoEnded]

\* The chunks a click in the reader can name
Shown == 0..(app.chunks.length - 1)

Does(new) ==
    /\ app' = Rendered(app, new)
    /\ UNCHANGED <<parseVars, chunkCall, normCall, sidebar>>

\* handleFileUpload up to the await of parsePdf
HandleFileUpload ==
    /\ app.currentView = "library" /\ Clickable(app)
    /\ ~app.isProcessingPdf
    /\ Len(app.library) < MaxBooks
    /\ Does([Before EXCEPT !.isProcessingPdf = TRUE])

\* handleFileUpload after parsePdf resolved: saveBook, loadLibrary, openBook
UploadCompletes ==
    /\ app.isProcessingPdf
    /\ \E length \in 1..MaxBookChunks :
          LET id == Len(app.library) + 1
              saved == [Before EXCEPT !.library = Append(@, saveBook(length)),
                                      !.isProcessingPdf = FALSE]
          IN  Does([openBook(saved, id) EXCEPT
                       !.replaced = @ \/ app.currentView = "reader"])

\* handleFileUpload after parsePdf rejected
UploadFails ==
    /\ app.isProcessingPdf
    /\ Does([Before EXCEPT !.isProcessingPdf = FALSE])

\* A click on a book of the library
OpenBook ==
    /\ app.currentView = "library" /\ Clickable(app)
    /\ \E id \in DOMAIN app.library :
          Does(openBook(Before, id))

HandleBackToLibrary ==
    /\ Clickable(app)
    /\ Does(handleBackToLibrary(Before))

HandleModeSwitch ==
    /\ Clickable(app)
    /\ \E mode \in {"native", "gemini"} : Does(handleModeSwitch(Before, mode))

\* The key dialog: a key is saved and the dialog closed
HandleKeySet ==
    /\ app.isKeyModalOpen
    /\ Does([Before EXCEPT !.apiKey = TRUE, !.isKeyModalOpen = FALSE])

\* The key dialog is closed
CloseKeyModal ==
    /\ app.isKeyModalOpen
    /\ Does([Before EXCEPT !.isKeyModalOpen = FALSE])

HandlePlayPause ==
    /\ app.currentView = "reader" /\ Clickable(app)
    /\ Does([handlePlayPause(Before) EXCEPT
                !.touched = IF ~app.isPlaying /\ (app.useNative \/ app.apiKey)
                            THEN @ \cup {app.activeBookId} ELSE @])

HandleChunkSelect ==
    /\ app.currentView = "reader" /\ Clickable(app)
    /\ \E index \in Shown : Does(handleChunkSelect(Before, index))

ConfirmJump ==
    /\ app.pendingJumpIndex # NoJump
    /\ Does([confirmJump(Before) EXCEPT
                !.touched = IF app.useNative \/ app.apiKey
                            THEN @ \cup {app.activeBookId} ELSE @])

CancelJump ==
    /\ app.pendingJumpIndex # NoJump
    /\ Does(cancelJump(Before))

HandleToggleRead ==
    /\ app.currentView = "reader" /\ Clickable(app)
    /\ \E index \in Shown :
          Does([handleToggleRead(Before, index) EXCEPT
                   !.touched = @ \cup {app.activeBookId}])

HandleReset ==
    /\ app.currentView = "reader" /\ Clickable(app)
    /\ Does(handleReset(Before))

\* The audio element reaches the end of its source: 'ended'
AudioEnded ==
    /\ app.audioPlayer.playing
    /\ Does(handleNextChunk(pauseAudio(Before)))

\* The utterance of speakNative ends: onEnd
NativeEnded ==
    /\ app.native = "speaking"
    /\ Does(IF app.isPlaying THEN handleNextChunk(stopNative(Before))
            ELSE stopNative(Before))

\* The utterance of speakNative fails: onError
NativeFails ==
    /\ app.native = "speaking"
    /\ Does([stopNative(Before) EXCEPT !.isPlaying = FALSE])

GenerateAudioReturns ==
    \E request \in app.requests : Does(generateAudioResolved(Before, request))

GenerateAudioThrows ==
    \E request \in app.requests : Does(generateAudioRejected(Before, request))

NextReader ==
    \/ HandleFileUpload
    \/ UploadCompletes
    \/ UploadFails
    \/ OpenBook
    \/ HandleBackToLibrary
    \/ HandleModeSwitch
    \/ HandleKeySet
    \/ CloseKeyModal
    \/ HandlePlayPause
    \/ HandleChunkSelect
    \/ ConfirmJump
    \/ CancelJump
    \/ HandleToggleRead
    \/ HandleReset
    \/ AudioEnded
    \/ NativeEnded
    \/ NativeFails
    \/ GenerateAudioReturns
    \/ GenerateAudioThrows

\* The App from its mount, with up to MaxBooks books of up to MaxBookChunks
\* chunks uploaded
SpecReader == InitReader /\ [][NextReader]_vars

-----------------------------------------------------------------------------
(* Properties of processOutline.                                           *)

\* processOutline has returned the resolved outline of a raw outline
OutlineResolved ==
    /\ hist.outlineResult = "array"
    /\ pc \notin {"getOutline", "getDestination", "getPageIndex"}

\* The page a destination leads to when every lookup succeeds: none without
\* a destination or for a name the document does not know, else the page
\* the destination array refers to.
PageOfDest(dest) ==
    IF dest.kind = "array" THEN Num(dest.ref)
    ELSE IF dest.kind = "name" /\ NamedDestination(dest.name).kind = "array"
    THEN Num(NamedDestination(dest.name).ref)
    ELSE Null

RECURSIVE ExpectedOutline(_, _, _)
\* The raw forest with, at every node, the page its destination leads to,
\* but null at the nodes whose position is in failing.
ExpectedOutline(nodes, prefix, failing) ==
    [j \in 1..Len(nodes) |->
        [title |-> nodes[j].title,
         pageNumber |-> IF (prefix \o <<j>>) \in failing THEN Null
                        ELSE PageOfDest(nodes[j].dest),
         items |-> ExpectedOutline(nodes[j].items, prefix \o <<j>>, failing)]]

\* C5: outline resolution isolates failures per node.  Whichever nodes had
\* a lookup (getDestination or getPageIndex) throw, the resolved tree has the
\* nodes, nesting, sibling order and titles of the run in which every lookup
\* succeeds, every node whose lookups did not throw (the parent, the
\* siblings and the children of a failing node included) has the pageNumber
\* of that run, and every failing node has pageNumber null.
C5_OutlineFailureIsolated ==
    OutlineResolved => outline = ExpectedOutline(hist.rawOutline, <<>>, hist.failed)

\* Exactly one node failed; it is the first child of a node that resolved to
\* a page, and its next sibling resolved to a page too.
C5_Witness ==
    /\ OutlineResolved
    /\ hist.failed = { <<1, 1>> }
    /\ Len(outline) = 1
    /\ outline[1].pageNumber # Null
    /\ Len(outline[1].items) = 2
    /\ outline[1].items[1].pageNumber = Null
    /\ outline[1].items[2].pageNumber # Null

RECURSIVE OutlinePaths(_, _)
\* The positions of the nodes of a forest: the index at each level
OutlinePaths(nodes, prefix) ==
    UNION { {prefix \o <<j>>} \cup OutlinePaths(nodes[j].items, prefix \o <<j>>)
              : j \in 1..Len(nodes) }

RECURSIVE NodeAt(_, _)
NodeAt(nodes, path) ==
    IF Len(path) = 1 THEN nodes[path[1]]
    ELSE NodeAt(nodes[path[1]].items, Tail(path))

\* The lookup name was awaited for the node at path
LookupIssued(name, path) ==
    \E k \in 1..Len(hist.calls) :
        /\ hist.calls[k].name = name
        /\ hist.calls[k].path = path

\* What the lookup name returned for the node at path, if it returned
ReturnedAt(name, path) ==
    { r.value : r \in { x \in hist.returned : x.name = name /\ x.path = path } }

\* C14: for each node of the outline: without a destination, pageNumber is
\* null and no lookup is issued for it; with a named destination whose
\* lookup gives no destination array, pageNumber is null and getPageIndex is
\* not issued for it; and when getPageIndex gives the zero-based index k for
\* its destination, pageNumber is k + 1.
C14_DestinationResolution ==
    OutlineResolved =>
        \A path \in OutlinePaths(hist.rawOutline, <<>>) :
            LET raw == NodeAt(hist.rawOutline, path)
                node == NodeAt(outline, path)
            IN  /\ raw.dest.kind = "none"
                      => /\ node.pageNumber = Null
                         /\ ~LookupIssued("getDestination", path)
                         /\ ~LookupIssued("getPageIndex", path)
                /\ (raw.dest.kind = "name"
                      /\ \E v \in ReturnedAt("getDestination", path) : v.kind # "array")
                      => /\ node.pageNumber = Null
                         /\ ~LookupIssued("getPageIndex", path)
                /\ \A v \in ReturnedAt("getPageIndex", path) :
                      v.tag = "number" => node.pageNumber = Num(v.v + 1)

\* An outline resolved with a node without destination, a node whose name
\* the document does not know, and a node whose page-index lookup gave 1.
C14_Witness ==
    /\ OutlineResolved
    /\ \E p1, p2, p3 \in OutlinePaths(hist.rawOutline, <<>>) :
          /\ NodeAt(hist.rawOutline, p1).dest.kind = "none"
          /\ NodeAt(hist.rawOutline, p2).dest.kind = "name"
          /\ ReturnedAt("getDestination", p2) = {NoDest}
          /\ ReturnedAt("getPageIndex", p3) = {Num(1)}
          /\ NodeAt(outline, p3).pageNumber = Num(2)

\* null, or an integer >= 1
IsPageNumberOrNull(v) == v = Null \/ (v.tag = "number" /\ v.v >= 1)

\* C15: whatever the destination and page-index lookups do, a lookup that
\* returns malformed data (no index, a non-numeric or a negative index)
\* instead of throwing included, every node of the resolved outline has a
\* pageNumber that is null or an integer >= 1, and a node whose lookup gave
\* malformed data has pageNumber null.
C15_PageNumberWellFormed ==
    OutlineResolved =>
        \A path \in OutlinePaths(hist.rawOutline, <<>>) :
            LET node == NodeAt(outline, path)
            IN  /\ IsPageNumberOrNull(node.pageNumber)
                /\ (ReturnedAt("getPageIndex", path) \cap MalformedPageIndexes # {}
                      \/ [kind |-> "object"] \in ReturnedAt("getDestination", path))
                      => node.pageNumber = Null

\* A lookup of a node hangs, and that node has a next sibling
HungBeforeSibling ==
    /\ pc = "hung"
    /\ stack[Len(stack)].k < Len(stack[Len(stack)].nodes)

\* The activation of processOutline that holds the hung node has pushed the
\* item of that node's next sibling, or the outline step is over
SiblingOfHungResolved ==
    \/ OutlineResolved /\ pc # "hung"
    \/ /\ hist.hung # <<>>
       /\ Len(stack) >= Len(hist.hung)
       /\ Len(stack[Len(hist.hung)].result) > hist.hung[Len(hist.hung)]

\* C16: a destination lookup of one outline node that never completes stalls
\* only that node's branch: the siblings of that node are still resolved.
C16_HungLookupStallsOnlyItsNode == HungBeforeSibling ~> SiblingOfHungResolved

\* The lookups of processOutline, in the order they were issued
LookupCalls ==
    LET IsLookup(call) == call.name \in {"getDestination", "getPageIndex"}
    IN  SelectSeq(hist.calls, IsLookup)

RECURSIVE PreorderLeq(_, _)
\* The node at p is the node at q, or comes before it in depth-first
\* pre-order: an ancestor before its descendants, a subtree before the next
\* sibling
PreorderLeq(p, q) ==
    IF p = <<>> THEN TRUE
    ELSE IF q = <<>> THEN FALSE
    ELSE IF p[1] # q[1] THEN p[1] < q[1]
    ELSE PreorderLeq(Tail(p), Tail(q))

RECURSIVE SameNodesInOrder(_, _)
\* The resolved forest lists the nodes of the raw forest, level by level,
\* in the order of the source
SameNodesInOrder(raw, resolved) ==
    /\ Len(raw) = Len(resolved)
    /\ \A j \in 1..Len(raw) :
          /\ resolved[j].title = raw[j].title
          /\ SameNodesInOrder(raw[j].items, resolved[j].items)

\* C19: the lookups of the outline are issued in depth-first pre-order with
\* sibling order kept: of two lookups the earlier one is for the same node or
\* for a node that comes before in pre-order (so a node's lookups precede
\* those of its children, and those of its whole subtree precede those of
\* its next sibling); for one node getDestination precedes getPageIndex; a
\* lookup is issued only when the one before has completed; and the resolved
\* outline lists the nodes in the order of the source.
C19_DepthFirstPreOrder ==
    /\ \A k, m \in 1..Len(LookupCalls) :
          k < m => /\ PreorderLeq(LookupCalls[k].path, LookupCalls[m].path)
                   /\ LookupCalls[k].path = LookupCalls[m].path
                         => /\ LookupCalls[k].name = "getDestination"
                            /\ LookupCalls[m].name = "getPageIndex"
    /\ \A k \in 1..Len(LookupCalls) :
          \/ LookupCalls[k].path \in hist.failed
          \/ ReturnedAt(LookupCalls[k].name, LookupCalls[k].path) # {}
          \/ k = Len(LookupCalls) /\ pc = LookupCalls[k].name
    /\ OutlineResolved => SameNodesInOrder(hist.rawOutline, outline)

\* An outline resolved with four lookups: the two of node 1, the one of its
\* child, then the one of node 2.
C19_Witness ==
    /\ OutlineResolved
    /\ Len(LookupCalls) = 4
    /\ [k \in 1..4 |-> LookupCalls[k].path] = << <<1>>, <<1>>, <<1, 1>>, <<2>> >>
    /\ LookupCalls[1].name = "getDestination"
    /\ Len(outline) = 2

\* The lookups issued for the node at path
LookupsOf(path) == { k \in 1..Len(LookupCalls) : LookupCalls[k].path = path }

RECURSIVE Depth(_)
\* The number of levels of a forest
Depth(nodes) ==
    IF nodes = <<>> THEN 0
    ELSE LET d(j) == Depth(nodes[j].items)
         IN  1 + (CHOOSE m \in { d(j) : j \in 1..Len(nodes) } :
                     \A j \in 1..Len(nodes) : d(j) <= m)

\* C20: when each call awaited returns or throws, outline resolution
\* terminates on every raw outline, whatever its depth: once getOutline
\* has given the tree, processOutline eventually returns.  All along, a
\* lookup is issued only for a node present in the raw outline, at most two
\* lookups are issued per node, and the tree returned has exactly one node
\* per node of the source, at the same position.
C20_OutlineTerminates ==
    /\ (hist.outlineResult = "array") ~> OutlineResolved
    /\ [](/\ \A k \in 1..Len(LookupCalls) :
                /\ LookupCalls[k].path \in OutlinePaths(hist.rawOutline, <<>>)
                /\ Cardinality(LookupsOf(LookupCalls[k].path)) <= 2
          /\ OutlineResolved
                => OutlinePaths(outline, <<>>) = OutlinePaths(hist.rawOutline, <<>>))

\* processOutline returned the three nodes of an outline three levels deep,
\* after two lookups for the node at the top.
C20_Witness ==
    /\ OutlineResolved
    /\ Depth(hist.rawOutline) = 3
    /\ Depth(outline) = 3
    /\ Cardinality(LookupsOf(<<1>>)) = 2
    /\ Cardinality(OutlinePaths(outline, <<>>)) = 3

-----------------------------------------------------------------------------
(* Properties of parsePdf.                                                 *)

\* The number of chunks the text of page p yields
PageYield(p) == Len(chunkPageText(Normalized(rev, pageTexts[p]), p, 0))

RECURSIVE SumYield(_)
\* The number of chunks the first p pages yield
SumYield(p) == IF p = 0 THEN 0 ELSE SumYield(p - 1) + PageYield(p)

\* C1: the chunk sequence of one parsePdf call has consecutive, strictly
\* increasing ids, chunks[k+1].id = chunks[k].id + 1, whatever each page
\* yields; the running counter has advanced by exactly the number of chunks
\* of each page extracted (by nothing for a page without chunks); and that
\* sequence is what the call returns.
C1_ConsecutiveIds ==
    /\ \A k \in 1..(Len(allChunks) - 1) : allChunks[k + 1].id = allChunks[k].id + 1
    /\ chunkIdCounter = SumYield(Len(pageTexts))
    /\ Len(allChunks) = SumYield(Len(pageTexts))
    /\ result.status = "resolved" => result.value.chunks = allChunks

\* A call that returned the chunks of a document whose first page yields
\* none and whose second page yields two.
C1_Witness ==
    /\ result.status = "resolved"
    /\ Len(pageTexts) = 2
    /\ PageYield(1) = 0
    /\ PageYield(2) = 2
    /\ Len(result.value.chunks) = 2

\* The texts of the chunks of one page, in order
TextsOf(chunks) == [k \in 1..Len(chunks) |-> chunks[k].text]

ChunksOnPage(chunks, p) == LET OnPage(c) == c.pageNumber = p IN SelectSeq(chunks, OnPage)

\* C2: in the chunk sequence of parsePdf, pageNumber never decreases along
\* the sequence, and every chunk carries the 1-based number (from 1 to the
\* page count) of the page whose text produced it: the chunks numbered p
\* are, in order, the chunks of the text of page p.
C2_PageNumbers ==
    /\ \A k \in 1..(Len(allChunks) - 1) :
          allChunks[k].pageNumber <= allChunks[k + 1].pageNumber
    /\ \A k \in 1..Len(allChunks) : allChunks[k].pageNumber \in 1..Len(pageTexts)
    /\ Len(pageTexts) <= numPages
    /\ \A p \in 1..Len(pageTexts) :
          TextsOf(ChunksOnPage(allChunks, p))
              = TextsOf(chunkPageText(Normalized(rev, pageTexts[p]), p, 0))

\* A call that returned chunks of page 1 followed by chunks of page 2.
C2_Witness ==
    /\ result.status = "resolved"
    /\ Len(result.value.chunks) >= 3
    /\ result.value.chunks[1].pageNumber = 1
    /\ result.value.chunks[Len(result.value.chunks)].pageNumber = 2

\* Every page of the document was extracted and none yielded a chunk
AllPagesEmpty ==
    /\ numPages >= 1
    /\ Len(pageTexts) = numPages
    /\ \A p \in 1..numPages : PageYield(p) = 0

\* C3: if every page of the document yields no chunk, parsePdf fails with the
\* SCANNED_PDF_DETECTED error, and parsePdf never resolves with an empty
\* chunks array.
C3_ScannedPdfRejected ==
    /\ (pc = "done" /\ AllPagesEmpty) => result = Rejected("SCANNED_PDF_DETECTED")
    /\ result.status = "resolved" => Len(result.value.chunks) > 0

\* C4 as claimed: parsePdf resolves or rejects with the no-extractable-text
\* error, and no other failure reaches the caller, whatever call fails.
C4_OnlyScannedFailure ==
    result.status = "rejected" => result.error = "SCANNED_PDF_DETECTED"

\* An await of parsePdf that no try block encloses
UncaughtCalls == {"arrayBuffer", "getDocument", "getPage", "getTextContent"}

LastCall == hist.calls[Len(hist.calls)]

\* C4 as amended: parsePdf settles in one of three ways: it resolves with its
\* result; it rejects with the no-extractable-text error; or it rejects with
\* what file.arrayBuffer(), getDocument, getPage or getTextContent threw,
\* which nothing catches.  Once the page loop is over without that, no
\* failure of the outline, destination, page-index or metadata calls makes
\* it reject.
C4_FailurePropagation ==
    /\ pc = "done" <=> result.status # "pending"
    /\ (result.status = "rejected" /\ result.error # "SCANNED_PDF_DETECTED")
          => /\ LastCall.name \in UncaughtCalls
             /\ hist.outlineResult = "none"
    /\ (pc = "done" /\ (hist.outlineResult # "none" \/ hist.failed # {}))
          => result.status = "resolved"
    /\ result.status = "resolved"
          => /\ result.value.chunks = allChunks
             /\ result.value.outline = outline
             /\ rev = "enhanced" => result.value.metadata = metadata

\* A call that resolved although a lookup of the outline threw.
C4_Witness ==
    /\ result.status = "resolved"
    /\ hist.failed # {}
    /\ rev = "enhanced"

RECURSIVE ExpectedChunks(_)
\* The chunks of the first p pages as a function of their texts alone: each
\* page's chunks, numbered on from the chunks before them.
ExpectedChunks(p) ==
    IF p = 0 THEN <<>>
    ELSE LET before == ExpectedChunks(p - 1)
         IN  before \o chunkPageText(Normalized(rev, pageTexts[p]), p, Len(before))

\* C6: when the document has no outline, or getOutline fails, parsePdf still
\* succeeds, with outline = [] and with exactly the chunks it returns when
\* the outline is there: the chunks are those of the page texts, whatever
\* getOutline did.
C6_OutlineOptional ==
    /\ (pc = "done" /\ hist.outlineResult \in {"null", "threw"})
          => /\ result.status = "resolved"
             /\ result.value.outline = <<>>
    /\ result.status = "resolved" => result.value.chunks = ExpectedChunks(numPages)

\* A call that resolved with chunks after getOutline threw.
C6_Witness ==
    /\ result.status = "resolved"
    /\ hist.outlineResult = "threw"
    /\ Len(result.value.chunks) >= 2
    /\ result.value.outline = <<>>

\* The outline parsePdf has when the outline step is over, as a function of
\* what getOutline and the lookups did
ExpectedParseOutline ==
    IF hist.outlineResult = "array"
    THEN ExpectedOutline(hist.rawOutline, <<>>, hist.failed)
    ELSE <<>>

\* pdf.getMetadata() threw, or gave no title the code takes (none, or
\* 'Untitled')
NoUsableTitle ==
    \/ hist.meta.status = "threw"
    \/ /\ hist.meta.status = "returned"
       /\ hist.meta.info.Title \in {"", "Untitled"}

\* C13: once parsePdf is at its metadata step, nothing that step's layers
\* do (getMetadata throwing, no cover, no heuristic match, an empty or failed
\* Google Books lookup) makes it reject, and the chunks and the outline it
\* returns are those the page loop and the outline step left; when
\* getMetadata throws or gives no usable title, the title returned is the
\* file name without '.pdf'.
C13_MetadataBestEffort ==
    /\ hist.meta.status # "none" => result.status # "rejected"
    /\ (pc = "done" /\ hist.meta.status # "none")
          => /\ result.status = "resolved"
             /\ result.value.chunks = ExpectedChunks(numPages)
             /\ result.value.outline = ExpectedParseOutline
    /\ (result.status = "resolved" /\ rev = "enhanced" /\ NoUsableTitle)
          => result.value.metadata.title = StripPdf(file.name)

\* A call that resolved after getMetadata threw: the title is the default,
\* there is no cover, and the chunks and the resolved outline are returned.
C13_Witness ==
    /\ result.status = "resolved"
    /\ hist.meta.status = "threw"
    /\ result.value.metadata.title = "book"
    /\ result.value.metadata.coverUrl = ""
    /\ Len(result.value.chunks) >= 1
    /\ Len(result.value.outline) >= 1

\* getTextContent was awaited for page p and returned its text
PageExtracted(p) ==
    /\ p <= Len(pageTexts)
    /\ \E k \in 1..Len(hist.calls) :
          hist.calls[k].name = "getTextContent" /\ hist.calls[k].page = p

\* C17: the empty-document check is made only when all N pages have been
\* extracted, and there is no early exit on an empty page: when parsePdf
\* rejects with SCANNED_PDF_DETECTED, every page 1..N has been extracted
\* (and none gave a chunk); and once every page has been extracted and one
\* of them gave a chunk, whichever page that is, parsePdf does not reject.
C17_EmptyCheckAfterAllPages ==
    /\ result = Rejected("SCANNED_PDF_DETECTED")
          => /\ \A p \in 1..numPages : PageExtracted(p)
             /\ AllPagesEmpty
    /\ (Len(pageTexts) = numPages /\ \E p \in 1..numPages : PageYield(p) > 0)
          => result.status # "rejected"
    /\ (pc = "done" /\ Len(pageTexts) = numPages /\ \E p \in 1..numPages : PageYield(p) > 0)
          => result.status = "resolved"

\* A call of the revision with the check that resolved for a document whose
\* first page gave no chunk and whose last page gave text.
C17_Witness ==
    /\ rev = "enhanced"
    /\ result.status = "resolved"
    /\ numPages = 2
    /\ PageYield(1) = 0
    /\ PageYield(2) >= 1
    /\ result.value.chunks[1].pageNumber = 2

\* The calls parsePdf makes once the page loop is over: the outline and its
\* lookups, the document metadata, the cover, the external metadata lookup
LaterCalls ==
    {"getOutline", "getDestination", "getPageIndex", "getMetadata",
     "generateCoverImage", "fetchGoogleBooksMetadata"}

\* C27: when parsePdf fails with the no-extractable-text error, no call for
\* the outline, the metadata, the cover or the external metadata lookup has
\* been issued: the calls made are those of the loading and of the page
\* loop, the last of them the text extraction of the last page, and the
\* outline and the metadata have not been set.
C27_ScannedFailsBeforeOutline ==
    result = Rejected("SCANNED_PDF_DETECTED")
        => /\ \A k \in 1..Len(hist.calls) : hist.calls[k].name \notin LaterCalls
           /\ hist.outlineResult = "none"
           /\ hist.meta.status = "none"
           /\ numPages >= 1 => LastCall = [name |-> "getTextContent", page |-> numPages]
           /\ outline = <<>>
           /\ metadata = NoMetadata

\* A call on a document of two pages without text failed with the
\* no-extractable-text error after the text extraction of page 2.
C27_Witness ==
    /\ result = Rejected("SCANNED_PDF_DETECTED")
    /\ numPages = 2
    /\ Len(pageTexts) = 2
    /\ LastCall = [name |-> "getTextContent", page |-> 2]
    /\ Len(hist.calls) = 6

\* The calls of the page loop, in the order they were issued
PageCalls ==
    LET InLoop(call) == call.name \in {"getPage", "getTextContent"}
    IN  SelectSeq(hist.calls, InLoop)

\* C18: within one parsePdf call at most one external asynchronous call is
\* outstanding at any time: the call awaited is the last one issued, and
\* every call before it has settled.  The page loop issues getPage(1),
\* getTextContent(1), getPage(2), ... in that order; when the extraction of
\* page i is under way, the chunks of pages 1..i-1 have been appended and
\* the id counter updated; and getOutline is issued only when the last page
\* has been processed, after the last call of the page loop.
C18_OneCallAtATime ==
    /\ pc # "done" => LastCall.name = pc
    /\ \A k \in 1..Len(PageCalls) :
          PageCalls[k] = IF k % 2 = 1
                         THEN [name |-> "getPage", page |-> (k + 1) \div 2]
                         ELSE [name |-> "getTextContent", page |-> k \div 2]
    /\ pc \in {"getPage", "getTextContent"}
          => /\ i \in 1..numPages
             /\ LastCall.page = i
             /\ Len(pageTexts) = i - 1
             /\ Len(allChunks) = SumYield(i - 1)
             /\ chunkIdCounter = SumYield(i - 1)
    /\ \A k \in 1..Len(hist.calls) :
          hist.calls[k].name = "getOutline"
              => /\ Len(pageTexts) = numPages
                 /\ Len(PageCalls) = 2 * numPages
                 /\ \A j \in 1..Len(hist.calls) :
                       hist.calls[j].name \in {"getPage", "getTextContent"} => j < k

\* getPage(2) is awaited, and the two chunks of page 1 are in allChunks and
\* counted.
C18_Witness ==
    /\ pc = "getPage"
    /\ i = 2
    /\ LastCall = [name |-> "getPage", page |-> 2]
    /\ Len(allChunks) = 2
    /\ chunkIdCounter = 2

-----------------------------------------------------------------------------
(* Properties of the sidebar's locator.                                    *)

\* The 1-based positions of the chunks on page p or later
AtOrAfterPositions(chunks, p) == { k \in 1..Len(chunks) : chunks[k].pageNumber >= p }

\* C7: for a chunk list and a target page p, the locator finds the lowest
\* index i with chunks[i].pageNumber >= p; it finds -1 when no chunk has
\* pageNumber >= p; and it finds 0 when p is at most the first chunk's page.
C7_LocatorLowestIndex ==
    (sidebar.state = "clicked" /\ sidebar.pageNumber # Null) =>
        LET p == sidebar.pageNumber.v
            chunks == sidebar.chunks
            hits == AtOrAfterPositions(chunks, p)
            targetIndex == sidebar.targetIndex
        IN  /\ hits = {} => targetIndex = -1
            /\ hits # {} => /\ targetIndex + 1 \in hits
                            /\ \A k \in hits : targetIndex + 1 <= k
            /\ (chunks # <<>> /\ p <= chunks[1].pageNumber) => targetIndex = 0

\* A click on a chapter of page 2 in a book whose chunks are on pages 1, 1,
\* 3 and 3: the locator finds the first chunk of page 3, index 2.
C7_Witness ==
    /\ sidebar.state = "clicked"
    /\ sidebar.pageNumber = Num(2)
    /\ Len(sidebar.chunks) = 4
    /\ sidebar.chunks[2].pageNumber = 1
    /\ sidebar.chunks[3].pageNumber = 3
    /\ sidebar.targetIndex = 2
    /\ sidebar.onChunkSelect = <<2>>

\* The entry clicked has a page and a chunk of the book is on that page or
\* on a later one
ClickHasTarget ==
    /\ sidebar.pageNumber # Null
    /\ \E k \in 1..Len(sidebar.chunks) :
          sidebar.chunks[k].pageNumber >= sidebar.pageNumber.v

\* C24: a click on an outline entry calls the chunk-select callback only
\* when the entry has a page and some chunk is on that page or after it.
\* For an entry without a page, or with a page after the last chunk's, the
\* callback (and the closing of the mobile drawer) is not called, so the
\* reading position stays.  Otherwise the callback is called once, with the
\* index of the first chunk on that page or after it: no chunk before it
\* is, and it is on a later page exactly when the page has no chunk.
C24_ClickSelectsOnlyWithTarget ==
    sidebar.state = "clicked" =>
        /\ ~ClickHasTarget => sidebar.onChunkSelect = <<>> /\ sidebar.onCloseMobile = 0
        /\ ClickHasTarget =>
              /\ Len(sidebar.onChunkSelect) = 1
              /\ sidebar.onCloseMobile = 1
              /\ LET p == sidebar.pageNumber.v
                     k == sidebar.onChunkSelect[1] + 1
                 IN  /\ k \in 1..Len(sidebar.chunks)
                     /\ sidebar.chunks[k].pageNumber >= p
                     /\ \A j \in 1..(k - 1) : sidebar.chunks[j].pageNumber < p
                     /\ sidebar.chunks[k].pageNumber > p
                           <=> \A j \in 1..Len(sidebar.chunks) :
                                  sidebar.chunks[j].pageNumber # p

\* A click on an entry of page 2 in a book with one chunk on page 1 and one
\* on page 3: the chunk of page 3 is selected.
C24_Witness ==
    /\ sidebar.state = "clicked"
    /\ sidebar.pageNumber = Num(2)
    /\ Len(sidebar.chunks) = 2
    /\ sidebar.chunks[1].pageNumber = 1
    /\ sidebar.chunks[2].pageNumber = 3
    /\ sidebar.onChunkSelect = <<1>>
    /\ sidebar.onCloseMobile = 1

\* The nodes of the outline given, at any depth, that have a page at most
\* the page of the current chunk
PrecedingNodes ==
    LET flat == flattenOutline(sidebar.given, <<>>)
        page == sidebar.chunks[sidebar.currentIndex + 1].pageNumber
    IN  { flat[k] : k \in { j \in 1..Len(flat) :
                              /\ flat[j].pageNumber # Null
                              /\ flat[j].pageNumber.v <= page } }

\* The detection has run for a book with a current chunk
ChapterDetected == sidebar.state = "rendered" /\ sidebar.chunks # <<>>

\* What C25 says whatever the node taken among those of the greatest page:
\* a node without a page is never selected, none is selected when none
\* qualifies, the node selected has the greatest page at most the current
\* one, and the outline is left as it was given
SelectsGreatestPage ==
    /\ PrecedingNodes = {} => sidebar.activeChapterNode = Null
    /\ PrecedingNodes # {}
          => /\ sidebar.activeChapterNode \in PrecedingNodes
             /\ \A node \in PrecedingNodes :
                   node.pageNumber.v <= sidebar.activeChapterNode.pageNumber.v
    /\ sidebar.outline = sidebar.given

\* The nodes that qualify and have the page of the node selected
SamePageNodes ==
    { node \in PrecedingNodes : node.pageNumber = sidebar.activeChapterNode.pageNumber }

-----------------------------------------------------------------------------
(* Properties of chunkPageText.                                            *)

ReturnedChunks == IF chunkCall.state = "returned" THEN chunkCall.chunks ELSE <<>>

\* C8: every chunk the chunker emits has a text of at most MAX_CHUNK_LENGTH
\* characters, unless it was made of exactly one sentence; a chunk that
\* combines two or more sentences never exceeds MAX_CHUNK_LENGTH, and a
\* paragraph emitted whole never does either.
C8_ChunkLengthPolicy ==
    \A k \in 1..Len(ReturnedChunks) :
        /\ chunkCall.trace[k] # 1 => TextLen(ReturnedChunks[k].text) <= MAX_CHUNK_LENGTH
        /\ TextLen(ReturnedChunks[k].text) > MAX_CHUNK_LENGTH => chunkCall.trace[k] = 1

\* A call that emitted a chunk combining several sentences and a chunk that
\* is one sentence longer than the limit.
C8_Witness ==
    /\ chunkCall.state = "returned"
    /\ \E k \in 1..Len(chunkCall.chunks) : chunkCall.trace[k] >= 2
    /\ \E k \in 1..Len(chunkCall.chunks) :
          chunkCall.trace[k] = 1 /\ TextLen(chunkCall.chunks[k].text) > MAX_CHUNK_LENGTH

\* No whitespace at either end, whitespace only as single spaces, no newline.
IsCleanText(t) ==
    /\ TextLen(t) > 0
    /\ ~IsSpace(t[1].ch)
    /\ ~IsSpace(t[Len(t)].ch)
    /\ \A j \in 1..Len(t) : t[j].n >= 1
    /\ \A j \in 1..Len(t) : IsSpace(t[j].ch) => t[j] = Run(" ", 1)
    /\ \A j \in 1..(Len(t) - 1) : ~(IsSpace(t[j].ch) /\ IsSpace(t[j + 1].ch))

\* C9: every chunk the chunker emits, on the short-paragraph path and on the
\* sentence-splitting path, has a non-empty text with no leading or trailing
\* whitespace, no run of two or more spaces and no newline.
C9_ChunkTextClean ==
    \A k \in 1..Len(ReturnedChunks) : IsCleanText(ReturnedChunks[k].text)

\* A call on a text that starts with whitespace and has a blank line, which
\* emitted a chunk on each of the two paths.
C9_Witness ==
    /\ chunkCall.state = "returned"
    /\ chunkCall.text # <<>>
    /\ IsSpace(chunkCall.text[1].ch)
    /\ Len(SplitParagraphs(chunkCall.text)) >= 2
    /\ \E k \in 1..Len(chunkCall.chunks) : chunkCall.trace[k] = 0
    /\ \E k \in 1..Len(chunkCall.chunks) : chunkCall.trace[k] >= 1

RECURSIVE WordEnd(_, _)
\* First index >= p of t holding whitespace, Len(t) + 1 if none.
WordEnd(t, p) ==
    IF p > Len(t) \/ IsSpace(t[p].ch) THEN p ELSE WordEnd(t, p + 1)

RECURSIVE Words(_)
\* The maximal whitespace-free stretches of t, in order.
Words(t) ==
    IF t = <<>> THEN <<>>
    ELSE IF IsSpace(t[1].ch) THEN Words(Tail(t))
    ELSE LET e == WordEnd(t, 1)
         IN  <<SubSeq(t, 1, e - 1)>> \o Words(SubSeq(t, e, Len(t)))

RECURSIVE JoinWithSpace(_)
JoinWithSpace(ws) ==
    IF ws = <<>> THEN <<>>
    ELSE IF Len(ws) = 1 THEN ws[1]
    ELSE ws[1] \o <<Run(" ", 1)>> \o JoinWithSpace(Tail(ws))

\* The whitespace-collapsed, trimmed form of a text, said without the code's
\* replace and trim: its words joined by single spaces.
Collapsed(t) == JoinWithSpace(Words(t))

\* The text is one paragraph (it has no blank-line boundary and is not blank)
\* of collapsed length at most MAX_CHUNK_LENGTH.
IsOneShortParagraph(t) ==
    /\ FirstSeparator(t, 1) = <<0, 0>>
    /\ TextLen(Collapsed(t)) >= 1
    /\ TextLen(Collapsed(t)) <= MAX_CHUNK_LENGTH

\* C10: a page whose text is a single paragraph whose whitespace-collapsed,
\* trimmed form has length at most MAX_CHUNK_LENGTH yields exactly one chunk,
\* whose text is that collapsed, trimmed paragraph, whose id is startId and
\* whose pageNumber is the page given.
C10_ShortParagraphOneChunk ==
    (chunkCall.state = "returned" /\ IsOneShortParagraph(chunkCall.text))
        => chunkCall.chunks = <<[id |-> chunkCall.startId,
                                 text |-> Collapsed(chunkCall.text),
                                 pageNumber |-> chunkCall.pageNumber]>>

\* A call on a one-paragraph text with whitespace to collapse and to trim,
\* and a sentence end inside it.
C10_Witness ==
    /\ chunkCall.state = "returned"
    /\ IsOneShortParagraph(chunkCall.text)
    /\ Collapsed(chunkCall.text) # chunkCall.text
    /\ \E j \in 1..Len(chunkCall.text) : IsPunct(chunkCall.text[j].ch)
    /\ chunkCall.startId > 0

\* The text is one paragraph of collapsed length over MAX_CHUNK_LENGTH that
\* is a single sentence: it has sentence punctuation only, if at all, as its
\* last characters.
IsOneLongSentence(t) ==
    LET c == Collapsed(t)
    IN  /\ FirstSeparator(t, 1) = <<0, 0>>
        /\ TextLen(c) > MAX_CHUNK_LENGTH
        /\ ~IsPunct(c[1].ch)
        /\ \A j \in 1..Len(c) : IsPunct(c[j].ch) => \A m \in j..Len(c) : IsPunct(c[m].ch)

\* C11: a paragraph that is a single sentence longer than MAX_CHUNK_LENGTH,
\* with no sentence-ending punctuation inside it, is never split: the chunker
\* emits exactly one chunk, the whole (collapsed, trimmed) paragraph, so the
\* chunk is as long as the paragraph.
C11_LongSentenceNotSplit ==
    (chunkCall.state = "returned" /\ IsOneLongSentence(chunkCall.text))
        => /\ chunkCall.chunks = <<[id |-> chunkCall.startId,
                                    text |-> Collapsed(chunkCall.text),
                                    pageNumber |-> chunkCall.pageNumber]>>
           /\ TextLen(chunkCall.chunks[1].text) = TextLen(Collapsed(chunkCall.text))

\* A call on a paragraph of 2 * MAX_CHUNK_LENGTH characters or more without
\* any punctuation, already collapsed and trimmed, which gave one chunk of
\* the paragraph's length.
C11_Witness ==
    /\ chunkCall.state = "returned"
    /\ IsOneLongSentence(chunkCall.text)
    /\ TextLen(chunkCall.text) >= 2 * MAX_CHUNK_LENGTH
    /\ \A j \in 1..Len(chunkCall.text) : ~IsPunct(chunkCall.text[j].ch)
    /\ Len(chunkCall.chunks) = 1
    /\ TextLen(chunkCall.chunks[1].text) = TextLen(chunkCall.text)

\* The least cut at or after a, the last sentence n when there is none
GroupEnd(cuts, a, n) ==
    IF \E j \in cuts : j >= a
    THEN CHOOSE j \in cuts : j >= a /\ \A m \in cuts : m >= a => j <= m
    ELSE n

\* The first sentence of the group that sentence j is in
GroupStart(cuts, j) ==
    IF \E c \in cuts : c < j
    THEN 1 + (CHOOSE c \in cuts : c < j /\ \A m \in cuts : m < j => m <= c)
    ELSE 1

RECURSIVE GroupsFrom(_, _, _)
\* The sentences from the a-th on, concatenated group by group; cuts holds
\* the indices of the sentences after which a group ends
GroupsFrom(sentences, cuts, a) ==
    IF a > Len(sentences) THEN <<>>
    ELSE LET e == GroupEnd(cuts, a, Len(sentences))
         IN  <<Flatten(SubSeq(sentences, a, e))>> \o GroupsFrom(sentences, cuts, e + 1)

\* The buffer is cut after sentence j exactly when the buffer that holds
\* sentence j, untrimmed, together with sentence j + 1 is longer than
\* MAX_CHUNK_LENGTH
IsGreedy(sentences, cuts) ==
    \A j \in 1..(Len(sentences) - 1) :
        j \in cuts <=>
            TextLen(Flatten(SubSeq(sentences, GroupStart(cuts, j), j)) \o sentences[j + 1])
                > MAX_CHUNK_LENGTH

\* The chunk texts a greedy accumulation of the sentences of a long
\* paragraph gives: the trimmed groups of a greedy set of cuts
GreedyTexts(cleanedPara) ==
    LET sentences == Sentences(cleanedPara)
        groups(cuts) == GroupsFrom(sentences, cuts, 1)
    IN  { [k \in 1..Len(groups(cuts)) |-> Trim(groups(cuts)[k])] :
            cuts \in { c \in SUBSET (1..(Len(sentences) - 1)) : IsGreedy(sentences, c) } }

RECURSIVE SplitGreedily(_, _)
\* texts are, paragraph after paragraph, the whole paragraph when it is not
\* longer than MAX_CHUNK_LENGTH and the texts of a greedy accumulation of
\* its sentences when it is
SplitGreedily(texts, rawParagraphs) ==
    IF rawParagraphs = <<>> THEN texts = <<>>
    ELSE LET cleanedPara == CleanParagraph(Head(rawParagraphs))
             rest(n) == SplitGreedily(SubSeq(texts, n + 1, Len(texts)), Tail(rawParagraphs))
         IN  IF TextLen(cleanedPara) = 0 THEN rest(0)
             ELSE IF TextLen(cleanedPara) <= MAX_CHUNK_LENGTH
             THEN texts # <<>> /\ texts[1] = cleanedPara /\ rest(1)
             ELSE \E n \in 1..Len(texts) :
                     /\ SubSeq(texts, 1, n) \in GreedyTexts(cleanedPara)
                     /\ rest(n)

\* A paragraph of the text is longer than MAX_CHUNK_LENGTH
HasLongParagraph(t) ==
    \E k \in 1..Len(SplitParagraphs(t)) :
        TextLen(CleanParagraph(SplitParagraphs(t)[k])) > MAX_CHUNK_LENGTH

\* C21: the sentences of a paragraph longer than MAX_CHUNK_LENGTH are
\* accumulated greedily: the chunks of the paragraph are consecutive groups
\* of its sentences, a group ends after a sentence exactly when the
\* untrimmed group together with the next sentence is longer than
\* MAX_CHUNK_LENGTH, and no chunk is empty, also when the first sentence
\* alone is longer than MAX_CHUNK_LENGTH.
C21_GreedyAccumulation ==
    (chunkCall.state = "returned" /\ HasLongParagraph(chunkCall.text))
        => /\ SplitGreedily(TextsOf(chunkCall.chunks), SplitParagraphs(chunkCall.text))
           /\ \A k \in 1..Len(chunkCall.chunks) : TextLen(chunkCall.chunks[k].text) > 0

\* A call on one paragraph of three sentences of about half the limit: the
\* first two make one chunk, the third another.
C21_Witness ==
    /\ chunkCall.state = "returned"
    /\ Len(SplitParagraphs(chunkCall.text)) = 1
    /\ Len(Sentences(CleanParagraph(chunkCall.text))) = 3
    /\ chunkCall.trace = <<2, 1>>
    /\ TextLen(chunkCall.chunks[1].text) <= MAX_CHUNK_LENGTH
    /\ TextLen(chunkCall.chunks[1].text) + 1 + TextLen(chunkCall.chunks[2].text)
          > MAX_CHUNK_LENGTH

RECURSIVE NewlinesIn(_, _, _)
\* The number of newlines of t between the indices p and q
NewlinesIn(t, p, q) ==
    IF p > q THEN 0
    ELSE (IF t[p].ch = "LF" THEN t[p].n ELSE 0) + NewlinesIn(t, p + 1, q)

RECURSIVE BlocksFrom(_, _, _)
\* The stretches of t from index p on that no blank line interrupts, cur
\* being the stretch under way: a blank-line boundary is a maximal stretch
\* of whitespace with two newlines or more
BlocksFrom(t, p, cur) ==
    IF p > Len(t) THEN <<cur>>
    ELSE IF IsSpace(t[p].ch)
         THEN LET e == WsRunEnd(t, p)
              IN  IF NewlinesIn(t, p, e) >= 2
                  THEN <<cur>> \o BlocksFrom(t, e + 1, <<>>)
                  ELSE BlocksFrom(t, e + 1, cur \o SubSeq(t, p, e))
         ELSE BlocksFrom(t, p + 1, Append(cur, t[p]))

\* The paragraphs of a page, collapsed and trimmed, in source order
CollapsedParagraphs(t) ==
    LET blocks == BlocksFrom(t, 1, <<>>)
    IN  [k \in 1..Len(blocks) |-> Collapsed(blocks[k])]

\* C22: the chunker splits a page at its blank-line boundaries only and
\* emits the paragraphs in source order: when every paragraph has a
\* collapsed length of at most MAX_CHUNK_LENGTH, the chunks are the n
\* non-empty collapsed paragraphs in order, with ids startId .. startId+n-1
\* and the page number given; a paragraph of whitespace only gives no chunk
\* and takes no id.
C22_ParagraphsInOrder ==
    LET IsNonEmpty(para) == para # <<>>
        paras == SelectSeq(CollapsedParagraphs(chunkCall.text), IsNonEmpty)
    IN  (/\ chunkCall.state = "returned"
         /\ \A k \in 1..Len(paras) : TextLen(paras[k]) <= MAX_CHUNK_LENGTH)
            => chunkCall.chunks = [k \in 1..Len(paras) |->
                                     [id |-> chunkCall.startId + k - 1,
                                      text |-> paras[k],
                                      pageNumber |-> chunkCall.pageNumber]]

\* A call on a page that starts with a paragraph of one space, followed by
\* two paragraphs of one word: two chunks, numbered from startId.
C22_Witness ==
    /\ chunkCall.state = "returned"
    /\ Len(CollapsedParagraphs(chunkCall.text)) = 3
    /\ chunkCall.text[1] = Run(" ", 1)
    /\ CollapsedParagraphs(chunkCall.text)[1] = <<>>
    /\ chunkCall.startId = 7
    /\ Len(chunkCall.chunks) = 2
    /\ chunkCall.chunks[1].text # chunkCall.chunks[2].text
    /\ chunkCall.chunks[2].id = 8

\* The text is one paragraph of collapsed length over MAX_CHUNK_LENGTH
IsOneLongParagraph(t) ==
    /\ FirstSeparator(t, 1) = <<0, 0>>
    /\ TextLen(Collapsed(t)) > MAX_CHUNK_LENGTH

\* C26: splitting a paragraph longer than MAX_CHUNK_LENGTH into sentences
\* loses no content: the chunks emitted for the paragraph, joined by single
\* spaces, are the collapsed, trimmed paragraph, also when the paragraph
\* ends in text without sentence punctuation or has punctuation that no
\* whitespace follows.
C26_NoContentLost ==
    (chunkCall.state = "returned" /\ IsOneLongParagraph(chunkCall.text))
        => Canon(JoinWithSpace(TextsOf(chunkCall.chunks))) = Canon(Collapsed(chunkCall.text))

-----------------------------------------------------------------------------
(* Properties of normalizeText.                                            *)

\* C12: normalization is idempotent: normalizeText(normalizeText(s)) =
\* normalizeText(s) for every text s, those included whose NFKC form holds a
\* character that an earlier replacement step targets.
C12_NormalizeIdempotent ==
    (normCall.state = "called" /\ Len(normCall.outputs) >= 2)
        => normCall.outputs[2] = normCall.outputs[1]

\* The ASCII control characters other than the newline, among the characters
\* the model uses
IsStrippedControl(c) == c \in {"NUL", "TAB", "U+000B", "U+000C", "CR", "U+001F", "U+007F"}

RECURSIVE Lines(_)
\* The stretches of a text between its newlines, in order: a text with n
\* newlines has n + 1 of them
Lines(t) ==
    LET p == LastLF(t, 1, Len(t))
    IN  IF p = 0 THEN <<t>>
        ELSE IF t[p].n = 1
             THEN Lines(SubSeq(t, 1, p - 1)) \o <<SubSeq(t, p + 1, Len(t))>>
             ELSE Lines(SubSeq(t, 1, p - 1) \o <<Run("LF", t[p].n - 1)>>)
                      \o <<SubSeq(t, p + 1, Len(t))>>

\* The text the k-th call of normalizeText was given
NormInput(k) == IF k = 1 THEN normCall.text ELSE normCall.outputs[k - 1]

\* C23: what normalizeText returns holds no ASCII control character other
\* than the newline, and every newline of its input is in its output, in
\* order: the output has the newlines of the input, with between them what
\* normalizeText makes of the input between them; so a text with a
\* blank-line boundary gives a text with one.
C23_ControlsStrippedNewlinesKept ==
    normCall.state = "called" =>
        \A k \in 1..Len(normCall.outputs) :
            LET in == NormInput(k)
                out == normCall.outputs[k]
            IN  /\ \A j \in 1..Len(out) : ~IsStrippedControl(out[j].ch)
                /\ NewlinesIn(out, 1, Len(out)) = NewlinesIn(in, 1, Len(in))
                /\ Len(Lines(out)) = Len(Lines(in))
                /\ \A m \in 1..Len(Lines(in)) :
                      Lines(out)[m] = Normalized(normCall.rev, Lines(in)[m])
                /\ FirstSeparator(in, 1) # <<0, 0>> => FirstSeparator(out, 1) # <<0, 0>>

\* normalizeText was given two newlines with a tab between them and
\* returned the two newlines.
C23_Witness ==
    /\ normCall.state = "called"
    /\ normCall.text = <<Run("LF", 1), Run("TAB", 1), Run("LF", 1)>>
    /\ Len(normCall.outputs) >= 1
    /\ normCall.outputs[1] = <<Run("LF", 2)>>

-----------------------------------------------------------------------------
(* Properties of App: the audio cache, the restored progress, the indices. *)

\* The audio a cache entry holds, if any, was generated from a chunk of
\* this book
HoldsAudioOf(item, book) == item.blobUrl # NoUrl => item.blobUrl.book = book

\* C28: while a book is open no entry of the audio cache holds audio that
\* was requested for a chunk of another book, also when a generateAudio
\* call that began before the book was opened completes after it.
C28_CacheHoldsOnlyOpenBook ==
    app.activeBookId # NoBook =>
        \A k \in DOMAIN app.audioCache :
            HoldsAudioOf(app.audioCache[k], app.activeBookId)

\* C29: a book that was saved and neither played nor toggled since is open
\* with maxReadIndex -1, and its chunk 0 is shown as unread.
C29_SavedBookOpensUnread ==
    (app.currentView = "reader" /\ app.activeBookId \notin app.touched) =>
        /\ app.maxReadIndex = -1
        /\ ~isRead(app, 0)

\* currentIndex names a chunk of the open book and maxReadIndex a chunk of
\* it or none
IndicesInRange ==
    /\ 0 <= app.currentIndex /\ app.currentIndex < app.chunks.length
    /\ -1 <= app.maxReadIndex /\ app.maxReadIndex < app.chunks.length

\* The last step handled the end of the last chunk of the book
LastChunkEnded == app.ended # NoEnded /\ app.ended = app.chunks.length - 1

=============================================================================
